---- MODULE Spec2Model ----
(***************************************************************************)
(* A model of the CSH server (src/server): the connection handler, the     *)
(* session table, the session-ID generation worker, the expiration worker, *)
(* the session commands over a sandboxed file system, and the admin        *)
(* commands.  Text is modelled as a sequence of one-character strings so   *)
(* that path normalisation and the prefix test of the sandbox are computed *)
(* the way posixpath computes them.                                        *)
(***************************************************************************)
EXTENDS Integers, Sequences, FiniteSets, TLC

VARIABLES users, sessions, settings, updated_settings, session_gen_queue,
          conn, last, fs, now, probe, rate_limiter, users_file,
          original_file

vars == <<users, sessions, settings, updated_settings, session_gen_queue,
          conn, last, fs, now, probe, rate_limiter, users_file,
          original_file>>

\* An optional value: None, or Some(x) holding x.
None == <<>>

Some(x) == <<x>>

\* Python truthiness of an optional integer: None and 0 are both false.
Truthy(o) == o # None /\ o[1] # 0

\* The function f restricted to the keys in S.
Restrict(f, S) == [x \in S |-> f[x]]

\* dict.update / item assignment: g's entries override f's.
Updated(f, g) ==
    [x \in DOMAIN f \cup DOMAIN g |-> IF x \in DOMAIN g THEN g[x] ELSE f[x]]

(***************************************************************************)
(* Text and paths (os.path on a POSIX host)                                *)
(***************************************************************************)

\* The characters paths are built from in this model.
Chars == {"/", ".", "a", "b"}

\* Longest client path enumerated by the path specification.
MaxPathLen == 5

RECURSIVE StringsUpTo(_)
StringsUpTo(n) ==
    IF n = 0 THEN {<<>>}
    ELSE LET S == StringsUpTo(n - 1)
         IN  S \cup {Append(s, ch) : s \in {t \in S : Len(t) = n - 1}, ch \in Chars}

\* str.startswith
StartsWith(s, p) ==
    /\ Len(s) >= Len(p)
    /\ SubSeq(s, 1, Len(p)) = p

\* s[1 : ]
DropFirst(s) == IF Len(s) = 0 THEN <<>> ELSE SubSeq(s, 2, Len(s))

\* str.split('/'): the pieces between separators, empty pieces included.
RECURSIVE SplitFrom(_, _, _)
SplitFrom(s, i, cur) ==
    IF i > Len(s) THEN <<cur>>
    ELSE IF s[i] = "/" THEN <<cur>> \o SplitFrom(s, i + 1, <<>>)
    ELSE SplitFrom(s, i + 1, Append(cur, s[i]))

Split(s) == SplitFrom(s, 1, <<>>)

\* '/'.join(comps)
RECURSIVE JoinComps(_)
JoinComps(comps) ==
    IF Len(comps) = 0 THEN <<>>
    ELSE IF Len(comps) = 1 THEN comps[1]
    ELSE comps[1] \o <<"/">> \o JoinComps(Tail(comps))

DotDot == <<".", ".">>

\* The loop of posixpath.normpath over the split components.
RECURSIVE NormComps(_, _, _, _)
NormComps(comps, i, new_comps, initial_slashes) ==
    IF i > Len(comps) THEN new_comps
    ELSE LET comp == comps[i] IN
         IF comp = <<>> \/ comp = <<".">>
         THEN NormComps(comps, i + 1, new_comps, initial_slashes)
         ELSE IF \/ comp # DotDot
                 \/ (initial_slashes = 0 /\ Len(new_comps) = 0)
                 \/ (Len(new_comps) > 0 /\ new_comps[Len(new_comps)] = DotDot)
         THEN NormComps(comps, i + 1, Append(new_comps, comp), initial_slashes)
         ELSE IF Len(new_comps) > 0
         THEN NormComps(comps, i + 1, SubSeq(new_comps, 1, Len(new_comps) - 1),
                        initial_slashes)
         ELSE NormComps(comps, i + 1, new_comps, initial_slashes)

\* os.path.normpath
normpath(path) ==
    IF Len(path) = 0 THEN <<".">>
    ELSE LET initial_slashes ==
                 IF ~StartsWith(path, <<"/">>) THEN 0
                 ELSE IF StartsWith(path, <<"/", "/">>)
                         /\ ~StartsWith(path, <<"/", "/", "/">>) THEN 2
                 ELSE 1
             body == JoinComps(NormComps(Split(path), 1, <<>>, initial_slashes))
             out  == [i \in 1..initial_slashes |-> "/"] \o body
         IN  IF Len(out) = 0 THEN <<".">> ELSE out

\* os.path.join(a, b)
join(a, b) ==
    IF StartsWith(b, <<"/">>) THEN b
    ELSE IF Len(a) = 0 \/ a[Len(a)] = "/" THEN a \o b
    ELSE a \o <<"/">> \o b

\* The directory the server process runs in; relative host paths resolve here.
ProcessCwd == <<"/">>

\* os.path.abspath
abspath(path) ==
    IF StartsWith(path, <<"/">>) THEN normpath(path)
    ELSE normpath(join(ProcessCwd, path))

\* server.path: the root directory the server serves.
ServerPath == <<"/", "a">>

\* Session.get_full_path
get_full_path(current_directory, path) ==
    IF StartsWith(normpath(path), <<"/">>)
    THEN abspath(join(ServerPath, DropFirst(normpath(path))))
    ELSE abspath(join(ServerPath, join(current_directory, path)))

\* Session.validate_path
validate_path(current_directory, path) ==
    LET full_path == get_full_path(current_directory, path)
        root      == abspath(ServerPath)
    IN  ~(Len(full_path) < Len(root) \/ ~StartsWith(full_path, root))

\* The components of an absolute normalised path.
Components(p) == SelectSeq(Split(p), LAMBDA comp : comp # <<>>)

\* p is root or a descendant of root, component by component.
InsideRoot(p) ==
    LET pc == Components(p)
        rc == Components(abspath(ServerPath))
    IN  /\ Len(pc) >= Len(rc)
        /\ SubSeq(pc, 1, Len(rc)) = rc

\* os.path.dirname of an absolute normalised path.
Parent(p) ==
    LET comps == Components(p)
    IN  IF Len(comps) <= 1 THEN <<"/">>
        ELSE <<"/">> \o JoinComps(SubSeq(comps, 1, Len(comps) - 1))

\* os.path.basename of an absolute normalised path.
Basename(p) ==
    LET comps == Components(p)
    IN  IF Len(comps) = 0 THEN <<>> ELSE comps[Len(comps)]

\* q is p or lies below p, component by component.
Under(p, q) ==
    LET pc == Components(p)
        qc == Components(q)
    IN  /\ Len(qc) >= Len(pc)
        /\ SubSeq(qc, 1, Len(pc)) = pc

(***************************************************************************)
(* The host file system: a map from the absolute paths that exist to what  *)
(* is there.  The primitives return how they ended and the new map.        *)
(***************************************************************************)

Dir == [kind |-> "dir", content |-> <<>>]

File(content) == [kind |-> "file", content |-> content]

exists(f, p) == p \in DOMAIN f

isfile(f, p) == p \in DOMAIN f /\ f[p].kind = "file"

isdir(f, p) == p \in DOMAIN f /\ f[p].kind = "dir"

FsResult(err, f) == [err |-> err, fs |-> f]

\* Why a path cannot be created at p, or "ok".
ParentError(f, p) ==
    IF ~exists(f, Parent(p)) THEN "notfound"
    ELSE IF ~isdir(f, Parent(p)) THEN "other"
    ELSE "ok"

\* The content that stands for write data that is a str, not bytes.
TextData == <<"str">>

\* The modes open takes, of those requests carry.
OpenModes == {"wb", "ab", "xb", "rb", "w"}

\* open(p, mode); write(data); close().  open raises ValueError for a mode
\* it does not know, before it looks at the file; "rb" opens an existing
\* file that write then refuses; "xb" refuses an existing file; the other
\* modes create the file or, but for "ab", empty it, before write is called,
\* which raises TypeError for a str on a binary file and for bytes on a
\* text file.  An OSError ("other", "notfound") carries the path in its
\* text; ValueError, UnsupportedOperation and TypeError ("unnamed") do not.
FsWrite(f, p, data, mode) ==
    IF mode \notin OpenModes THEN FsResult("unnamed", f)
    ELSE IF mode = "rb"
    THEN FsResult(IF isdir(f, p) THEN "other"
                  ELSE IF exists(f, p) THEN "unnamed" ELSE "notfound", f)
    ELSE IF ParentError(f, p) # "ok" THEN FsResult(ParentError(f, p), f)
    ELSE IF isdir(f, p) THEN FsResult("other", f)
    ELSE IF mode = "xb" /\ exists(f, p) THEN FsResult("other", f)
    ELSE LET old == IF mode = "ab" /\ isfile(f, p) THEN f[p].content ELSE <<>>
         IN  IF (mode = "w") = (data = TextData)
             THEN FsResult("ok", Updated(f, p :> File(old \o data)))
             ELSE FsResult("unnamed", Updated(f, p :> File(old)))

\* os.unlink
FsUnlink(f, p) ==
    IF ~exists(f, p) THEN FsResult("notfound", f)
    ELSE IF isdir(f, p) THEN FsResult("other", f)
    ELSE FsResult("ok", Restrict(f, DOMAIN f \ {p}))

\* os.mkdir
FsMkdir(f, p) ==
    IF exists(f, p) THEN FsResult("other", f)
    ELSE IF ParentError(f, p) # "ok" THEN FsResult(ParentError(f, p), f)
    ELSE FsResult("ok", Updated(f, p :> Dir))

\* shutil.rmtree
FsRmtree(f, p) ==
    IF ~exists(f, p) THEN FsResult("notfound", f)
    ELSE IF ~isdir(f, p) THEN FsResult("other", f)
    ELSE FsResult("ok", Restrict(f, {q \in DOMAIN f : ~Under(p, q)}))

\* The path q below src, carried over to below dst.
Rebase(src, dst, q) ==
    LET rest == SubSeq(Components(q), Len(Components(src)) + 1, Len(Components(q)))
    IN  IF Len(rest) = 0 THEN dst
        ELSE IF dst = <<"/">> THEN <<"/">> \o JoinComps(rest)
        ELSE dst \o <<"/">> \o JoinComps(rest)

\* os.rename(src, dst) on absolute paths
FsRename(f, src, dst) ==
    IF ~exists(f, src) THEN FsResult("notfound", f)
    ELSE IF ParentError(f, dst) # "ok" THEN FsResult(ParentError(f, dst), f)
    ELSE IF src = dst THEN FsResult("ok", f)
    ELSE IF Under(src, dst) \/ Under(dst, src) THEN FsResult("other", f)
    ELSE IF exists(f, dst) /\ f[dst].kind # f[src].kind THEN FsResult("other", f)
    ELSE IF isdir(f, dst) /\ \E q \in DOMAIN f : q # dst /\ Under(dst, q)
    THEN FsResult("other", f)
    ELSE LET moved == {q \in DOMAIN f : Under(src, q)}
             kept  == {q \in DOMAIN f : ~Under(src, q) /\ q # dst}
             image == {Rebase(src, dst, q) : q \in moved}
         IN  FsResult("ok",
                 [q \in kept \cup image |->
                     IF q \in image
                     THEN f[CHOOSE m \in moved : Rebase(src, dst, m) = q]
                     ELSE f[q]])

\* shutil.move(src, dst)
FsMove(f, src, dst) ==
    LET real_dst == IF isdir(f, dst) /\ src # dst
                    THEN abspath(join(dst, Basename(src))) ELSE dst
    IN  IF real_dst # dst /\ exists(f, real_dst) THEN FsResult("other", f)
        ELSE FsRename(f, src, real_dst)

\* shutil.copy(src, dst)
FsCopy(f, src, dst) ==
    LET real_dst == IF isdir(f, dst) THEN abspath(join(dst, Basename(src))) ELSE dst
    IN  IF ~exists(f, src) THEN FsResult("notfound", f)
        ELSE IF src = real_dst THEN FsResult("other", f)
        ELSE IF isdir(f, src) \/ isdir(f, real_dst) THEN FsResult("other", f)
        ELSE IF ParentError(f, real_dst) # "ok"
        THEN FsResult(ParentError(f, real_dst), f)
        ELSE FsResult("ok", Updated(f, real_dst :> File(f[src].content)))

(***************************************************************************)
(* Users, sessions and settings                                            *)
(***************************************************************************)

\* hash_password: SHA-256 of the password, as a value that differs for
\* different passwords and is never equal to a password.
hash_password(password) == <<"sha256", password>>

\* The record create_user stores for a user.
UserRecord(username, password, permissions) ==
    [username |-> username, password_hash |-> hash_password(password),
     permissions |-> permissions]

\* The users file the server is constructed with.
InitialUsers ==
    [u \in {"root", "carol", "bob"} |->
        UserRecord(u, "pw", CASE u = "root" -> "a" [] u = "carol" -> "w" [] OTHER -> "r")]

\* Peer addresses (addr[0]) connections come from.
Addrs == {"ip1", "ip2"}

\* Number of concurrently handled connections.
NumConns == 2

Conns == 1..NumConns

\* Number of distinct values generate_session_id can return.
NumIds == 2

SessionIds == 1..NumIds

\* The clock stops at MaxTime.
MaxTime == 2

Session_SharedId(addr, session_id, username, timestamp, expire_after) ==
    [addr |-> addr, session_id |-> 1, username |-> username,
     expire_after |-> expire_after,
     current_directory |-> normpath(<<>>),
     expires |-> IF Truthy(expire_after)
                 THEN Some(timestamp + expire_after[1]) ELSE None]

\* Session.__init__
Session(addr, session_id, username, timestamp, expire_after) ==
    [addr |-> addr, session_id |-> session_id, username |-> username,
     expire_after |-> expire_after,
     current_directory |-> normpath(<<>>),
     expires |-> IF Truthy(expire_after)
                 THEN Some(timestamp + expire_after[1]) ELSE None]

\* The count of the user's sessions taken by log_in.
NumExistingSessions(table, username) ==
    Cardinality({k \in DOMAIN table : table[k].username = username})

\* log_in's test of the session limit.
TooManySessions(table, username, session_limit) ==
    /\ Truthy(session_limit)
    /\ NumExistingSessions(table, username) >= session_limit[1]

\* The expiration time log_in gives the new session.
LoginExpiration(data, s) ==
    IF s.allow_change_expire
    THEN IF "expiration_time" \in DOMAIN data
         THEN data.expiration_time ELSE s.default_expire
    ELSE s.default_expire

(***************************************************************************)
(* Connections.  A connection object lives from accept to the end of       *)
(* handle; conn[c] is the connection worker c, and last describes the      *)
(* request whose handling ended in the latest step.                        *)
(***************************************************************************)

NoItem == [session_id |-> None, finished |-> FALSE]

\* SessionIDGenerationItem.finish
FinishedItem(session_id) == [session_id |-> Some(session_id), finished |-> TRUE]

IdleConn ==
    [pc |-> "idle", addr |-> "", data |-> [command |-> "L"], open |-> FALSE,
     sent |-> <<>>, tried |-> <<>>, req |-> NoItem]

\* The connection as handle finds it: the socket open, nothing written.
Accepted(addr, data) ==
    [pc |-> "handling", addr |-> addr, data |-> data, open |-> TRUE,
     sent |-> <<>>, tried |-> <<>>, req |-> NoItem]

\* A respond whose socket takes every response.
respond_Always(k, code, error) ==
    [k EXCEPT !.sent = Append(@, code), !.tried = Append(@, code)]

\* Connection.respond: the codes respond was called with are appended to
\* tried, the codes written to the socket to sent.  Writing closes the
\* socket; on a closed socket send raises, and unless the response was an
\* error response respond calls itself with code 7, which raises again.
respond(k, code, error) ==
    IF k.open
    THEN [k EXCEPT !.sent = Append(@, code), !.tried = Append(@, code),
                   !.open = FALSE]
    ELSE [k EXCEPT !.tried = @ \o (IF error THEN <<code>> ELSE <<code, 7>>)]

NoLast ==
    [route |-> "none", addr |-> "", data |-> [command |-> "L"], open |-> FALSE,
     sent |-> <<>>, tried |-> <<>>, performed |-> <<>>, fs_paths |-> {},
     error |-> {}, session_id |-> None]

\* What is recorded of a request when its handling ends: the handler that
\* took it, the request without its args, whether the socket is still open,
\* the responses, the id of the command object whose preform ran, the
\* host paths its file-system primitive was invoked on, the host paths
\* that the 'error' text of the response spells out and the session_id the
\* response of a login carries.
Ended(route, k, performed, fs_paths) ==
    [route |-> route, addr |-> k.addr,
     data |-> Restrict(k.data, DOMAIN k.data \ {"args"}),
     open |-> k.open, sent |-> k.sent, tried |-> k.tried, performed |-> performed,
     fs_paths |-> fs_paths, error |-> {}, session_id |-> None]

\* The handling of a request ends in this step, the worker being idle
\* before and after it.
End(route, k, performed, fs_paths) ==
    /\ last' = Ended(route, k, performed, fs_paths)
    /\ UNCHANGED conn

(***************************************************************************)
(* log_in, admin and clear_user_sessions start with the same three checks. *)
(* None of them returns after its error response: a missing key or an      *)
(* unknown user then raises KeyError on the next statement (caught by      *)
(* handle, which calls respond with code 11), and after a wrong password   *)
(* the method simply goes on.                                              *)
(***************************************************************************)
CheckCredentials(k, data, usrs) ==
    IF ~({"username", "password"} \subseteq DOMAIN data)
    THEN [k |-> respond(k, 12, TRUE), raised |-> TRUE]
    ELSE IF data.username \notin DOMAIN usrs
    THEN [k |-> respond(k, 13, TRUE), raised |-> TRUE]
    ELSE IF usrs[data.username].password_hash # hash_password(data.password)
    THEN [k |-> respond(k, 14, TRUE), raised |-> FALSE]
    ELSE [k |-> k, raised |-> FALSE]

\* A generator that does not look at the session table.
generate_session_id_Any(table) == SessionIds

\* CSHServer.generate_session_id: the values it can return.
generate_session_id(table) == SessionIds \ DOMAIN table

\* Connection.log_in up to wait_until_finished.
LogIn(c, addr, data) ==
    /\ last.route = "none"
    /\ conn[c].pc = "idle"
    /\ data.command = "L"
    /\ LET auth == CheckCredentials(Accepted(addr, data), data, users)
       IN  IF auth.raised
           THEN /\ last' = Ended("L", respond(auth.k, 11, TRUE), <<>>, {})
                /\ UNCHANGED <<conn, session_gen_queue>>
           ELSE IF TooManySessions(sessions, data.username, settings.session_limit)
           THEN /\ last' = Ended("L", respond(auth.k, 24, TRUE), <<>>, {})
                /\ UNCHANGED <<conn, session_gen_queue>>
           ELSE /\ conn' = [conn EXCEPT ![c] = [auth.k EXCEPT !.pc = "waiting"]]
                /\ session_gen_queue' = Append(session_gen_queue, c)
                /\ last' = NoLast
    /\ UNCHANGED <<users, sessions, settings, updated_settings, fs, now, probe,
                   rate_limiter, users_file, original_file>>

\* One turn of run_session_gen_worker: get, generate_session_id, finish.
SessionGenWorker ==
    /\ last.route = "none"
    /\ session_gen_queue # <<>>
    /\ \E session_id \in generate_session_id(sessions) :
           conn' = [conn EXCEPT ![Head(session_gen_queue)].req =
                                    FinishedItem(session_id)]
    /\ session_gen_queue' = Tail(session_gen_queue)
    /\ last' = NoLast
    /\ UNCHANGED <<users, sessions, settings, updated_settings, fs, now, probe,
                   rate_limiter, users_file, original_file>>

\* Connection.log_in after wait_until_finished.
LogInInstall(c) ==
    /\ last.route = "none"
    /\ conn[c].pc = "waiting"
    /\ conn[c].req.finished
    /\ LET k  == conn[c]
           id == k.req.session_id[1]
       IN  /\ sessions' = Updated(sessions,
                  id :> Session(k.addr, id, k.data.username, now,
                                LoginExpiration(k.data, settings)))
           /\ last' = [Ended("L", respond(k, 0, FALSE), <<>>, {})
                          EXCEPT !.session_id = Some(id)]
    /\ conn' = [conn EXCEPT ![c] = IdleConn]
    /\ UNCHANGED <<users, settings, updated_settings, session_gen_queue, fs,
                   now, probe,
                   rate_limiter, users_file, original_file>>

\* Connection.status
Status(addr, data) ==
    /\ last.route = "none"
    /\ data.command = "I"
    /\ End("I", respond(Accepted(addr, data), 0, FALSE), <<>>, {})
    /\ UNCHANGED <<users, sessions, settings, updated_settings,
                   session_gen_queue, fs, now, probe,
                   rate_limiter, users_file, original_file>>

\* A clear_user_sessions that empties the session table.
ClearUserSessions_All(addr, data) ==
    /\ last.route = "none"
    /\ data.command = "CS"
    /\ LET auth == CheckCredentials(Accepted(addr, data), data, users)
       IN  IF auth.raised
           THEN /\ End("CS", respond(auth.k, 11, TRUE), <<>>, {})
                /\ UNCHANGED sessions
           ELSE /\ sessions' = <<>>
                /\ End("CS", respond(auth.k, 0, FALSE), <<>>, {})
    /\ UNCHANGED <<users, settings, updated_settings, session_gen_queue, fs,
                   now, probe,
                   rate_limiter, users_file, original_file>>

\* Connection.clear_user_sessions
ClearUserSessions(addr, data) ==
    /\ last.route = "none"
    /\ data.command = "CS"
    /\ LET auth == CheckCredentials(Accepted(addr, data), data, users)
       IN  IF auth.raised
           THEN /\ End("CS", respond(auth.k, 11, TRUE), <<>>, {})
                /\ UNCHANGED sessions
           ELSE /\ sessions' = Restrict(sessions,
                      {k \in DOMAIN sessions :
                          sessions[k].username # data.username})
                /\ End("CS", respond(auth.k, 0, FALSE), <<>>, {})
    /\ UNCHANGED <<users, settings, updated_settings, session_gen_queue, fs,
                   now, probe,
                   rate_limiter, users_file, original_file>>

(***************************************************************************)
(* Admin commands                                                          *)
(***************************************************************************)

ACCEPTABLE_ADMIN_COMMAND_IDS == 0..15

\* The admin commands whose preform is modelled.
ModelledAdminCommands == {1, 2, 3, 4, 5, 6, 7, 8, 10, 13, 14}

\* The keyword arguments the constructor of ADMIN_COMMANDS[id] takes.
AdminArgNames(id) ==
    CASE id = 1  -> {"username", "password", "permissions"}
      [] id = 2  -> {"username"}
      [] id = 3  -> {"username", "to_modify"}
      [] id = 4  -> {"username"}
      [] id = 6  -> {"new_limit"}
      [] id = 7  -> {"name"}
      [] id = 8  -> {"default_expire", "allow_change_expire"}
      [] id = 10 -> {"path"}
      [] id = 14 -> {"session_limit"}
      [] OTHER   -> {}

\* The keyword arguments of it that have a default.
AdminDefaults(id) == IF id = 10 THEN [replace |-> FALSE] ELSE <<>>

\* ADMIN_COMMANDS[id](self.server, **args) does not raise.
AdminConstructs(id, args) ==
    /\ AdminArgNames(id) \subseteq DOMAIN args
    /\ DOMAIN args \subseteq AdminArgNames(id) \cup DOMAIN AdminDefaults(id)

\* The limiter built from the pairs rates, with an empty bucket for every
\* address: buckets[a][t] is the number of items acquired for a at time t.
\* admitted is the address of the connection that has passed the limiter,
\* until its thread ends.
RateLimiter(rates) ==
    [rates |-> rates,
     buckets |-> [a \in Addrs |-> [t \in 0..MaxTime |-> 0]],
     admitted |-> None]

AdminResult(code, u, t, s, touched) ==
    [code |-> code, users |-> u, sessions |-> t, settings |-> s,
     updated_settings |-> touched, wrote |-> FALSE, new_limit |-> None,
     archived |-> {}]

\* The name that stands for the integer 1 sent as a username, and the value
\* that stands for the bytes b"r" sent as a permissions value.
IntegerOne == "int:1"
BytesR == "bytes:r"

\* json.dumps writes a key that is a number as text.
JsonKey(k) == IF k = IntegerOne THEN "1" ELSE k

\* json.dumps(self.users) does not raise: no value is of a kind JSON lacks.
Serializable(u) ==
    \A k \in DOMAIN u : \A f \in DOMAIN u[k] : u[k][f] # BytesR

\* What json.loads gives for the text json.dumps(u) gives.
JsonReloaded(u) ==
    [k \in {JsonKey(x) : x \in DOMAIN u} |->
        u[CHOOSE x \in DOMAIN u : JsonKey(x) = k]]

\* The users file after open(users_file, 'w') and nothing written.
Truncated == [ok |-> FALSE, object |-> <<>>]

\* The users file with the text json.dumps(u), as the object a reader gets.
Written(u) == [ok |-> TRUE, object |-> JsonReloaded(u)]

\* CSHServer.update_users: the file is opened for writing, which empties
\* it, and json.dumps(self.users) is written if it does not raise.
update_users(u) == IF Serializable(u) THEN Written(u) ELSE Truncated

\* create_user, delete_user and update_user after they changed the users to
\* u: update_users is called, and an exception in it gives code 17.
UsersChanged(u, t, s, touched) ==
    [AdminResult(IF Serializable(u) THEN 0 ELSE 17, u, t, s, touched)
        EXCEPT !.wrote = TRUE]

\* CSHServer.update_user: a "password" entry is replaced by its hash, then
\* the entries are written into the user's record.
update_user(u, username, to_modify) ==
    LET hashed == [f \in DOMAIN to_modify |->
                      IF f = "password" THEN hash_password(to_modify[f])
                      ELSE to_modify[f]]
    IN  [u EXCEPT ![username] = Updated(@, hashed)]

\* preform of ADMIN_COMMANDS[id]; an exception inside it gives code 17.
\* The name BackupCommand has for a backup made at the time t, a second
\* on the clock.
BackupName(t) == <<"BACKUP-" \o ToString(t) \o ".bak.zip">>

\* The archive file of a backup made at t in the directory path.
BackupFile(path, t) == join(path, BackupName(t))

\* The archive shutil.make_archive writes.
Archive == File(<<"zip">>)

\* preform of the command ADMIN_COMMANDS[id] made from args.  BackupCommand
\* tests "replace", a name that is not defined in preform, when the archive
\* exists: the NameError is answered 17.
AdminPreform(id, args, u, t, s, touched) ==
    CASE id = 1 ->
           UsersChanged(Updated(u, args.username :>
                            UserRecord(args.username, args.password,
                                       args.permissions)), t, s, touched)
      [] id = 2 ->
           AdminResult(IF args.username \in DOMAIN u THEN 0 ELSE 17,
                       u, t, s, touched)
      [] id = 3 ->
           IF args.username \in DOMAIN u
           THEN UsersChanged(update_user(u, args.username, args.to_modify),
                             t, s, touched)
           ELSE AdminResult(17, u, t, s, touched)
      [] id = 4 ->
           IF args.username \in DOMAIN u
           THEN UsersChanged(Restrict(u, DOMAIN u \ {args.username}),
                             t, s, touched)
           ELSE AdminResult(17, u, t, s, touched)
      [] id = 5 -> AdminResult(0, u, <<>>, s, touched)
      [] id = 6 ->
           [AdminResult(0, u, t, s, touched \cup {"rate_limit"})
               EXCEPT !.new_limit = Some(args.new_limit)]
      [] id = 7 ->
           AdminResult(0, u, t, [s EXCEPT !.server_name = args.name],
                       touched \cup {"server_name"})
      [] id = 8 ->
           AdminResult(0, u, t,
                       [s EXCEPT !.default_expire = args.default_expire,
                                 !.allow_change_expire = args.allow_change_expire],
                       touched \cup {"default_expire", "allow_change_expire"})
      [] id = 10 ->
           LET archive == BackupFile(args.path, now)
           IN  IF exists(fs, archive)
               THEN AdminResult(17, u, t, s, touched)
               ELSE [AdminResult(0, u, t, s, touched)
                        EXCEPT !.archived = {archive}]
      [] id = 13 -> AdminResult(0, u, t, s, touched)
      [] id = 14 ->
           AdminResult(0, u, t, [s EXCEPT !.session_limit = args.session_limit],
                       touched \cup {"session_limit"})

\* admin after the command's preform ended as r.
AdminPerformed(k, r) ==
    /\ users' = r.users
    /\ sessions' = r.sessions
    /\ settings' = r.settings
    /\ updated_settings' = r.updated_settings
    /\ users_file' = IF r.wrote THEN update_users(r.users) ELSE users_file
    /\ rate_limiter' = IF r.new_limit = None THEN rate_limiter
                       ELSE [RateLimiter(r.new_limit[1])
                                EXCEPT !.admitted = rate_limiter.admitted]
    /\ fs' = [path \in DOMAIN fs \cup r.archived |->
                 IF path \in r.archived THEN Archive ELSE fs[path]]
    /\ End("A", respond(k, r.code, r.code # 0), <<k.data.admin_command>>,
           r.archived)

\* admin after its credential checks ended as auth.
Authorized(data, auth) ==
    LET refused(code) ==
            /\ End("A", respond(auth.k, code, TRUE), <<>>, {})
            /\ UNCHANGED <<users, sessions, settings, updated_settings,
                           users_file, rate_limiter, fs>>
    IN  IF auth.raised THEN refused(11)
        ELSE IF "admin_command" \notin DOMAIN data THEN refused(9)
        ELSE IF data.admin_command \notin ACCEPTABLE_ADMIN_COMMAND_IDS
        THEN refused(10)
        ELSE IF "args" \notin DOMAIN data THEN refused(16)
        ELSE IF ~AdminConstructs(data.admin_command, data.args)
        THEN refused(22)
        ELSE AdminPerformed(auth.k,
                 AdminPreform(data.admin_command, data.args, users, sessions,
                              settings, updated_settings))

\* Connection.admin
Admin(addr, data) ==
    /\ last.route = "none"
    /\ data.command = "A"
    /\ "admin_command" \in DOMAIN data =>
           \/ data.admin_command \notin ACCEPTABLE_ADMIN_COMMAND_IDS
           \/ data.admin_command \in ModelledAdminCommands
    /\ Authorized(data, CheckCredentials(Accepted(addr, data), data, users))
    /\ UNCHANGED <<session_gen_queue, now, probe, original_file>>

(***************************************************************************)
(* Session commands                                                        *)
(***************************************************************************)

ACCEPTABLE_COMMAND_IDS == 0..13

\* Deepest host path (in components) the file system and the current
\* directories of the sessions are let grow to.
MaxDepth == 2

\* The keyword arguments the constructor of COMMANDS[id] requires ...
RequiredArgs(id) ==
    CASE id \in {0, 11} -> {}
      [] id = 2         -> {"path", "data"}
      [] id = 4         -> {"path", "new_name"}
      [] id \in {8, 9}  -> {"path", "destination"}
      [] OTHER          -> {"path"}

\* ... and those it has a default for.
OptionalArgs(id) ==
    CASE id = 1  -> {"start", "length"}
      [] id = 2  -> {"mode"}
      [] OTHER   -> {}

\* COMMANDS[id](session, **args) does not raise.
Constructs(id, args) ==
    /\ RequiredArgs(id) \subseteq DOMAIN args
    /\ DOMAIN args \subseteq RequiredArgs(id) \cup OptionalArgs(id)

InvalidSession_Both(session, username, addr) ==
    ~(session.username = username) /\ ~(session.addr = addr)

\* The test handle makes of the session against the request.
InvalidSession(session, username, addr) ==
    ~(session.username = username) \/ ~(session.addr = addr)

validate_NoRenewal(table, session, t) ==
    IF session.session_id \notin DOMAIN table
    THEN [ok |-> FALSE, sessions |-> table]
    ELSE IF session.expires = None
    THEN [ok |-> TRUE, sessions |-> table]
    ELSE IF t > session.expires[1]
    THEN [ok |-> FALSE,
          sessions |-> Restrict(table, DOMAIN table \ {session.session_id})]
    ELSE [ok |-> TRUE, sessions |-> table]

\* Session.validate: whether the session is valid, and the session table
\* afterwards (an expired session removed, a live one renewed).
validate(table, session, t) ==
    IF session.session_id \notin DOMAIN table
    THEN [ok |-> FALSE, sessions |-> table]
    ELSE IF session.expires = None
    THEN [ok |-> TRUE, sessions |-> table]
    ELSE IF t > session.expires[1]
    THEN [ok |-> FALSE,
          sessions |-> Restrict(table, DOMAIN table \ {session.session_id})]
    ELSE [ok |-> TRUE,
          sessions |-> [table EXCEPT ![session.session_id].expires =
                                         Some(t + session.expire_after[1])]]

PermittedTo_Anyone(id) == {"r", "w", "a"}

\* The permissions for which preform of COMMANDS[id] goes on.
PermittedTo(id) ==
    IF id \in {2, 3, 4, 5, 6, 8, 9} THEN {"w", "a"} ELSE {"r", "w", "a"}

\* The response code for the way a file-system primitive ended.
ErrorCode(err) ==
    CASE err = "ok" -> 0 [] err = "notfound" -> 3 [] OTHER -> 4

Outcome(code, f, cwd, paths) ==
    [code |-> code, fs |-> f, current_directory |-> cwd, fs_paths |-> paths,
     error |-> {}]

\* A primitive invoked on paths ended as r.  FileNotFoundError is answered
\* with json.dumps of the path the client sent; every other exception e is
\* answered with str(e), which for an OSError spells out the host paths the
\* primitive was invoked on.
Invoked(r, cwd, paths) ==
    [Outcome(ErrorCode(r.err), r.fs, cwd, paths)
        EXCEPT !.error = IF r.err = "other" THEN paths ELSE {}]

\* preform of COMMANDS[id] from its path validation on, for a session whose
\* current directory is cwd.  src and dst are get_full_path of the path
\* and of the destination, src_ok and dst_ok their validate_path.
\* mode.lower()
Lower(mode) == CASE mode = "WB" -> "wb" [] mode = "AB" -> "ab" [] OTHER -> mode

\* WriteCommand.__init__: the mode the file is opened in.  The constructor
\* finishes with code 5 for data that is not bytes and with code 6 for a
\* mode other than 'wb' and 'ab', and command() calls preform all the same,
\* which finishes again.
WriteMode(args) == Lower(IF "mode" \in DOMAIN args THEN args.mode ELSE "wb")

ExecuteOn(id, args, cwd, f, src, src_ok, dst, dst_ok) ==
    LET refused == Outcome(18, f, cwd, {})
    IN  CASE id = 1 ->
               IF ~(src_ok /\ isfile(f, src)) THEN refused
               ELSE Outcome(0, f, cwd, {src})
          [] id = 2 ->
               IF ~src_ok THEN refused
               ELSE Invoked(FsWrite(f, src, args.data, WriteMode(args)),
                            cwd, {src})
          [] id = 3 ->
               IF ~(src_ok /\ isfile(f, src)) THEN refused
               ELSE Invoked(FsUnlink(f, src), cwd, {src})
          [] id = 4 ->
               IF ~(src_ok /\ exists(f, src)) THEN refused
               ELSE IF args.new_name = <<>>
               THEN Invoked(FsResult("notfound", f), cwd, {src})
               ELSE Invoked(FsRename(f, src, dst), cwd, {src, dst})
          [] id = 5 ->
               IF ~src_ok THEN refused
               ELSE Invoked(FsMkdir(f, src), cwd, {src})
          [] id = 6 ->
               IF ~(src_ok /\ isdir(f, src)) THEN refused
               ELSE Invoked(FsRmtree(f, src), cwd, {src})
          [] id = 7 ->
               IF ~(src_ok /\ isdir(f, src)) THEN refused
               ELSE Outcome(0, f, cwd, {src})
          [] id = 8 ->
               IF ~(src_ok /\ exists(f, src)) THEN refused
               ELSE IF ~dst_ok THEN refused
               ELSE Invoked(FsMove(f, src, dst), cwd, {src, dst})
          [] id = 9 ->
               IF ~(src_ok /\ exists(f, src)) THEN refused
               ELSE IF ~dst_ok THEN refused
               ELSE Invoked(FsCopy(f, src, dst), cwd, {src, dst})
          [] id = 10 ->
               IF ~src_ok THEN refused
               ELSE IF ~isdir(f, abspath(join(ServerPath, args.path))) THEN refused
               ELSE IF StartsWith(normpath(args.path), <<"\\">>)
               THEN Outcome(0, f, normpath(DropFirst(args.path)), {})
               ELSE Outcome(0, f, normpath(join(cwd, args.path)), {})
          [] id = 11 -> Outcome(0, f, cwd, {})
          [] id = 12 ->
               IF ~(src_ok /\ isfile(f, src)) THEN refused
               ELSE Outcome(0, f, cwd, {src})
          [] id = 13 ->
               IF ~src_ok THEN refused
               ELSE Outcome(0, f, cwd, {src})

\* The second path a command works on: rename passes new_name to os.rename
\* as the client sent it, so the host resolves it against the directory of
\* the server process; move and copy pass get_full_path(destination).
SecondPath(id, args, cwd) ==
    IF id = 4 THEN abspath(args.new_name)
    ELSE IF id \in {8, 9} THEN get_full_path(cwd, args.destination)
    ELSE <<>>

\* Whether the command sandbox-validates its second path: rename does not.
SecondPathValid(id, args, cwd) ==
    IF id \in {8, 9} THEN validate_path(cwd, args.destination) ELSE TRUE

Execute(id, args, cwd, f) ==
    IF "path" \in DOMAIN args
    THEN ExecuteOn(id, args, cwd, f, get_full_path(cwd, args.path),
                   validate_path(cwd, args.path), SecondPath(id, args, cwd),
                   SecondPathValid(id, args, cwd))
    ELSE ExecuteOn(id, args, cwd, f, <<>>, FALSE, <<>>, FALSE)

PreformResult(raised, code, t, f, paths) ==
    [raised |-> raised, code |-> code, sessions |-> t, fs |-> f,
     fs_paths |-> paths, error |-> {}]

\* The end of preform once the command has been executed as r.
Executed(session, table, r) ==
    [PreformResult(FALSE, r.code,
         [table EXCEPT ![session.session_id].current_directory =
                           r.current_directory],
         r.fs, r.fs_paths)
        EXCEPT !.error = r.error]

\* preform, were it to go on for a session whose user is gone.
Validated_DeletedUserPermitted(id, args, session, usrs, f, v) ==
    IF ~v.ok THEN PreformResult(FALSE, 1, v.sessions, f, {})
    ELSE IF id = 0
    THEN PreformResult(FALSE, 0,
             Restrict(v.sessions, DOMAIN v.sessions \ {session.session_id}),
             f, {})
    ELSE IF session.username \in DOMAIN usrs
            /\ usrs[session.username].permissions \notin PermittedTo(id)
    THEN PreformResult(FALSE, 19, v.sessions, f, {})
    ELSE Executed(session, v.sessions,
                  Execute(id, args, session.current_directory, f))

\* preform, were it to go on whatever the permissions of the user.
Validated_NoPermissionCheck(id, args, session, usrs, f, v) ==
    IF ~v.ok THEN PreformResult(FALSE, 1, v.sessions, f, {})
    ELSE IF id = 0
    THEN PreformResult(FALSE, 0,
             Restrict(v.sessions, DOMAIN v.sessions \ {session.session_id}),
             f, {})
    ELSE IF session.username \notin DOMAIN usrs
    THEN PreformResult(TRUE, 17, v.sessions, f, {})
    ELSE Executed(session, v.sessions,
                  Execute(id, args, session.current_directory, f))

\* preform, were it to look at the permissions before the session.
Validated_PermissionFirst(id, args, session, usrs, f, v) ==
    IF id # 0 /\ session.username \in DOMAIN usrs
          /\ usrs[session.username].permissions \notin PermittedTo(id)
    THEN PreformResult(FALSE, 19, v.sessions, f, {})
    ELSE IF ~v.ok THEN PreformResult(FALSE, 1, v.sessions, f, {})
    ELSE IF id = 0
    THEN PreformResult(FALSE, 0,
             Restrict(v.sessions, DOMAIN v.sessions \ {session.session_id}),
             f, {})
    ELSE IF session.username \notin DOMAIN usrs
    THEN PreformResult(TRUE, 17, v.sessions, f, {})
    ELSE Executed(session, v.sessions,
                  Execute(id, args, session.current_directory, f))

\* preform after Session.validate returned v: logout removes the session;
\* every other command looks up the user's permissions (KeyError when the
\* user is gone) and goes on if they permit it.
Validated(id, args, session, usrs, f, v) ==
    IF ~v.ok THEN PreformResult(FALSE, 1, v.sessions, f, {})
    ELSE IF id = 0
    THEN PreformResult(FALSE, 0,
             Restrict(v.sessions, DOMAIN v.sessions \ {session.session_id}),
             f, {})
    ELSE IF session.username \notin DOMAIN usrs
    THEN PreformResult(TRUE, 17, v.sessions, f, {})
    ELSE IF usrs[session.username].permissions \notin PermittedTo(id)
    THEN PreformResult(FALSE, 19, v.sessions, f, {})
    ELSE Executed(session, v.sessions,
                  Execute(id, args, session.current_directory, f))

\* COMMANDS[id](session, **args).preform()
preform(id, args, session, table, usrs, f, t) ==
    Validated(id, args, session, usrs, f, validate(table, session, t))

\* handle after command() returned the command whose preform ended as r.
Performed(k, r) ==
    /\ \A p \in DOMAIN r.fs : Len(Components(p)) <= MaxDepth
    /\ \A sid \in DOMAIN r.sessions :
          Len(Components(r.sessions[sid].current_directory)) < MaxDepth
    /\ sessions' = r.sessions
    /\ fs' = r.fs
    /\ last' = [Ended("C", respond(k, r.code, r.raised \/ r.code # 0),
                       <<k.data.command>>, r.fs_paths)
                    EXCEPT !.error = r.error]
    /\ UNCHANGED conn

\* Connection.handle for an integer command, with Connection.command.
\* When command() has responded (no args, constructor failure) it returns
\* None, and handle's use of command.data raises into the catch-all.
HandleCommand(addr, data) ==
    /\ data.command \in Int
    /\ LET k == Accepted(addr, data)
           refused(code) ==
               /\ End("C", respond(k, code, TRUE), <<>>, {})
               /\ UNCHANGED <<sessions, fs>>
           refusedTwice(code) ==
               /\ End("C", respond(respond(k, code, TRUE), 11, TRUE), <<>>, {})
               /\ UNCHANGED <<sessions, fs>>
       IN  IF data.command \notin ACCEPTABLE_COMMAND_IDS THEN refused(10)
           ELSE IF ~({"username", "session_id"} \subseteq DOMAIN data)
           THEN refused(15)
           ELSE IF data.session_id \notin DOMAIN sessions THEN refused(16)
           ELSE IF InvalidSession(sessions[data.session_id], data.username, addr)
           THEN refused(1)
           ELSE IF "args" \notin DOMAIN data THEN refusedTwice(16)
           ELSE IF ~Constructs(data.command, data.args) THEN refusedTwice(22)
           ELSE Performed(k, preform(data.command, data.args,
                                     sessions[data.session_id], sessions,
                                     users, fs, now))
    /\ UNCHANGED <<users, settings, updated_settings, session_gen_queue, now,
                   probe,
                   rate_limiter, users_file, original_file>>

\* A session command arrives when no answered connection is at hand.
SessionCommand(addr, data) ==
    /\ last.route = "none"
    /\ HandleCommand(addr, data)

\* The client whose logout was just answered sends the same request again
\* on a new connection.
ReplayLogout ==
    /\ last.route = "C"
    /\ last.data.command = 0
    /\ HandleCommand(last.addr, Updated(last.data, [args |-> <<>>]))

\* Connection.handle for a request without a command.
NoCommand(addr, data) ==
    /\ last.route = "none"
    /\ "command" \notin DOMAIN data
    /\ End("-", respond(Accepted(addr, data), 9, TRUE), <<>>, {})
    /\ UNCHANGED <<users, sessions, settings, updated_settings,
                   session_gen_queue, fs, now, probe,
                   rate_limiter, users_file, original_file>>

\* Connection.handle for a connection whose first three bytes are not
\* b'CSH': the request is not read.
InvalidHeader(addr, header) ==
    /\ last.route = "none"
    /\ header # "CSH"
    /\ End("H", respond(Accepted(addr, [header |-> header]), 8, TRUE), <<>>, {})
    /\ UNCHANGED <<users, sessions, settings, updated_settings,
                   session_gen_queue, fs, now, probe,
                   rate_limiter, users_file, original_file>>

\* Text that is none of 'L', 'I', 'A', 'CS' and, as any text, not in
\* ACCEPTABLE_COMMAND_IDS.
OtherCommands == {"X", "l", ""}

\* Connection.handle for a request whose command is such a text.
InvalidCommand(addr, data) ==
    /\ last.route = "none"
    /\ data.command \in OtherCommands
    /\ End("X", respond(Accepted(addr, data), 10, TRUE), <<>>, {})
    /\ UNCHANGED <<users, sessions, settings, updated_settings,
                   session_gen_queue, fs, now, probe,
                   rate_limiter, users_file, original_file>>

\* One pass of run_session_expiration_worker over the session table.
ExpirationWorker ==
    /\ last.route = "none"
    /\ sessions' = Restrict(sessions,
           {k \in DOMAIN sessions :
               ~(sessions[k].expires # None /\ now > sessions[k].expires[1])})
    /\ last' = NoLast
    /\ UNCHANGED <<users, settings, updated_settings, session_gen_queue, conn,
                   fs, now, probe,
                   rate_limiter, users_file, original_file>>

\* The session's expiry has passed at time t.
Expired(session, t) ==
    session.expires # None /\ t > session.expires[1]

\* Connection.handle for a command on a session whose expiry has passed, up
\* to the point in Session.validate where the session was found in the table
\* and found expired; the del statement is still to run, and other threads
\* run before it.
ValidateExpired(c, addr, data) ==
    /\ last.route = "none"
    /\ data.command \in ACCEPTABLE_COMMAND_IDS
    /\ {"username", "session_id", "args"} \subseteq DOMAIN data
    /\ data.session_id \in DOMAIN sessions
    /\ ~InvalidSession(sessions[data.session_id], data.username, addr)
    /\ Constructs(data.command, data.args)
    /\ Expired(sessions[data.session_id], now)
    /\ conn' = [conn EXCEPT ![c] = [Accepted(addr, data) EXCEPT !.pc = "expired"]]
    /\ last' = NoLast
    /\ UNCHANGED <<users, sessions, settings, updated_settings,
                   session_gen_queue, fs, now, probe,
                   rate_limiter, users_file, original_file>>

\* del self.server.sessions[self.session_id] in Session.validate, and the
\* rest of handle: preform answers 1 when the key was deleted; when another
\* thread removed the key first, del raises KeyError, which handle answers
\* with code 17.
ValidateDelete(c) ==
    /\ last.route = "none"
    /\ conn[c].pc = "expired"
    /\ LET k == conn[c]
           sid == conn[c].data.session_id
       IN  IF sid \in DOMAIN sessions
           THEN /\ sessions' = Restrict(sessions, DOMAIN sessions \ {sid})
                /\ last' = Ended("C", respond(k, 1, TRUE), <<k.data.command>>, {})
           ELSE /\ sessions' = sessions
                /\ last' = Ended("C", respond(k, 17, TRUE), <<k.data.command>>, {})
    /\ conn' = [conn EXCEPT ![c] = IdleConn]
    /\ UNCHANGED <<users, settings, updated_settings, session_gen_queue, fs,
                   now, probe,
                   rate_limiter, users_file, original_file>>

\* Time passes.
Tick ==
    /\ last.route = "none"
    /\ now < MaxTime
    /\ now' = now + 1
    /\ last' = NoLast
    /\ UNCHANGED <<users, sessions, settings, updated_settings,
                   session_gen_queue, conn, fs, probe,
                   rate_limiter, users_file, original_file>>

\* The thread of the connection that was answered ends; the next step is
\* taken with no answered connection at hand.
ConnectionThreadEnds ==
    /\ last.route # "none"
    /\ last' = NoLast
    /\ UNCHANGED <<users, sessions, settings, updated_settings,
                   session_gen_queue, conn, fs, now, probe,
                   rate_limiter, users_file, original_file>>

(***************************************************************************)
(* The rate limiter.  CSHServer.__init__ builds a pyrate_limiter.Limiter   *)
(* from rate_limit, a list of (duration, number) pairs; handle asks it to  *)
(* acquire an item for the peer's IP before it reads the request.  Time is *)
(* counted in the units of now.                                            *)
(***************************************************************************)

RateLimitActive_Never(rl) == FALSE

\* if self.server.rate_limit:
RateLimitActive(rl) == rl.rates # <<>>

\* The identity handle acquires for: the IP of the peer.
RateKey(addr) == addr

RECURSIVE ItemsFrom(_, _)
\* The number of items in the bucket with a time of t or later.
ItemsFrom(bucket, t) ==
    IF t > MaxTime THEN 0
    ELSE (IF t >= 0 THEN bucket[t] ELSE 0) + ItemsFrom(bucket, t + 1)

\* The items of the bucket that lie in the window of a rate at time t: those
\* acquired after t - interval.
InWindow(bucket, t, interval) == ItemsFrom(bucket, t - interval + 1)

\* Limiter.try_acquire does not raise BucketFullException: under every rate
\* the bucket holds fewer items in the rate's window than the rate allows.
Admits(rl, key, t) ==
    \A i \in DOMAIN rl.rates :
       InWindow(rl.buckets[key], t, rl.rates[i][1]) < rl.rates[i][2]

\* Limiter.try_acquire when it does not raise: the item is put in the bucket.
try_acquire(rl, key, t) ==
    [rl EXCEPT !.buckets[key][t] = @ + 1]

\* No connection is being handled.
NoConnection ==
    /\ last.route = "none"
    /\ rate_limiter.admitted = None
    /\ \A c \in Conns : conn[c].pc = "idle"

\* Connection.handle up to the end of the rate-limit check, for a connection
\* from addr: a refused connection is answered 20 and handle returns; an
\* admitted one goes on to read its request.
TryAcquire(addr) ==
    /\ NoConnection
    /\ IF RateLimitActive(rate_limiter)
       THEN IF Admits(rate_limiter, RateKey(addr), now)
            THEN /\ rate_limiter' =
                       [try_acquire(rate_limiter, RateKey(addr), now)
                           EXCEPT !.admitted = Some(addr)]
                 /\ last' = NoLast
            ELSE /\ rate_limiter' = rate_limiter
                 /\ last' = Ended("R", respond(Accepted(addr, <<>>), 20, FALSE),
                                  <<>>, {})
       ELSE /\ rate_limiter' = [rate_limiter EXCEPT !.admitted = Some(addr)]
            /\ last' = NoLast
    /\ UNCHANGED <<users, sessions, settings, updated_settings,
                   session_gen_queue, conn, fs, now, probe, users_file,
                   original_file>>

\* The admitted connection's request is about to be read.
Admitted(addr) ==
    /\ rate_limiter.admitted = Some(addr)
    /\ \A c \in Conns : conn[c].pc = "idle"

\* The thread of a connection that went through the limiter ends.
LimitedThreadEnds ==
    /\ last.route # "none"
    /\ last' = NoLast
    /\ rate_limiter' = [rate_limiter EXCEPT !.admitted = None]
    /\ UNCHANGED <<users, sessions, settings, updated_settings,
                   session_gen_queue, conn, fs, now, probe, users_file,
                   original_file>>

(***************************************************************************)
(* The codec (binary.py).  Values are records [kind, v]; text is a         *)
(* sequence of characters, bytes a sequence of numbers 0..255, a list or   *)
(* tuple a sequence of values, a dict the sequence of its items in         *)
(* insertion order, a set a set of values.                                 *)
(***************************************************************************)

PyInt(n) == [kind |-> "int", v |-> n]
PyStr(text) == [kind |-> "str", v |-> text]
PyBytes(b) == [kind |-> "bytes", v |-> b]
PyList(items) == [kind |-> "list", v |-> items]
PyTuple(items) == [kind |-> "tuple", v |-> items]
PyDict(items) == [kind |-> "dict", v |-> items]
PyNone == [kind |-> "none", v |-> 0]
PyBool(b) == [kind |-> "bool", v |-> b]
PySet(elements) == [kind |-> "set", v |-> elements]

RECURSIVE ToLittleEndian(_, _)
\* int.to_bytes(n, size, byteorder='little') for n >= 0
ToLittleEndian(n, size) ==
    IF size = 0 THEN <<>>
    ELSE <<n % 256>> \o ToLittleEndian(n \div 256, size - 1)

RECURSIVE FromLittleEndian(_)
\* int.from_bytes(b, byteorder='little', signed=False)
FromLittleEndian(b) ==
    IF b = <<>> THEN 0 ELSE b[1] + 256 * FromLittleEndian(Tail(b))

RECURSIVE Pow256(_)
Pow256(size) == IF size = 0 THEN 1 ELSE 256 * Pow256(size - 1)

RECURSIVE BitLengthOf(_)
BitLengthOf(a) == IF a = 0 THEN 0 ELSE 1 + BitLengthOf(a \div 2)

\* int.bit_length
bit_length(n) == BitLengthOf(IF n < 0 THEN -n ELSE n)

IntSize_Unsigned(n) == (bit_length(n) + 7) \div 8

\* The number of bytes serialize_int writes.
IntSize(n) == (bit_length(n) + 7) \div 8 + 1

\* serialize_int: two's complement, little-endian.
serialize_int(n) ==
    ToLittleEndian(IF n < 0 THEN n + Pow256(IntSize(n)) ELSE n, IntSize(n))

\* deserialize_int
deserialize_int(b) ==
    LET u == FromLittleEndian(b)
    IN  IF b # <<>> /\ u >= Pow256(Len(b)) \div 2 THEN u - Pow256(Len(b)) ELSE u

\* The characters of text values; "eacute" stands for U+00E9.
CodecChars == {"a", "b", "eacute"}

\* The UTF-8 encoding of a character.
EncodeChar(c) ==
    CASE c = "a" -> <<97>> [] c = "b" -> <<98>> [] c = "eacute" -> <<195, 169>>

RECURSIVE serialize_string(_)
\* bytes(data, ENCODING)
serialize_string(text) ==
    IF text = <<>> THEN <<>>
    ELSE EncodeChar(Head(text)) \o serialize_string(Tail(text))

\* The character one byte below 128 decodes to, and the one two bytes do.
DecodeChar(b) ==
    CASE b = <<97>> -> "a" [] b = <<98>> -> "b" [] b = <<195, 169>> -> "eacute"
      [] Len(b) = 1 -> "chr" \o ToString(b[1])
      [] OTHER -> "chr" \o ToString(b[1]) \o "_" \o ToString(b[2])

RECURSIVE ValidUtf8(_)
\* str(data, ENCODING) does not raise UnicodeDecodeError: every byte is
\* below 128 or a lead byte of a two-byte character followed by a
\* continuation byte (the buffers of the model hold no longer characters).
ValidUtf8(b) ==
    IF b = <<>> THEN TRUE
    ELSE IF b[1] < 128 THEN ValidUtf8(Tail(b))
    ELSE /\ b[1] \in 194..223
         /\ Len(b) >= 2
         /\ b[2] \in 128..191
         /\ ValidUtf8(SubSeq(b, 3, Len(b)))

RECURSIVE deserialize_string(_)
\* str(data, ENCODING), when it does not raise
deserialize_string(b) ==
    IF b = <<>> THEN <<>>
    ELSE IF b[1] < 128
    THEN <<DecodeChar(<<b[1]>>)>> \o deserialize_string(Tail(b))
    ELSE <<DecodeChar(<<b[1], b[2]>>)>> \o deserialize_string(SubSeq(b, 3, Len(b)))

RECURSIVE IterationOrder(_)
\* list(data) for a set: its elements in some order.
IterationOrder(elements) ==
    IF elements = {} THEN <<>>
    ELSE LET x == CHOOSE x \in elements : TRUE
         IN  <<x>> \o IterationOrder(elements \ {x})

\* The tags of TYPE_MAP.
Tag(kind) ==
    CASE kind = "int" -> 0 [] kind = "float" -> 1 [] kind = "str" -> 2
      [] kind = "bytes" -> 3 [] kind = "list" -> 4 [] kind = "tuple" -> 5
      [] kind = "dict" -> 6 [] kind = "none" -> 7 [] kind = "bool" -> 8
      [] kind = "set" -> 9

\* The tag, the length in 8 bytes and the serialized data.
Tagged(kind, serialized) ==
    <<Tag(kind)>> \o ToLittleEndian(Len(serialized), 8) \o serialized

RECURSIVE serialize(_)
RECURSIVE serialize_list(_)

\* serialize_list: the serialized items joined.
serialize_list(items) ==
    IF items = <<>> THEN <<>>
    ELSE serialize(Head(items)) \o serialize_list(Tail(items))

\* serialize_dict: the list of the items, each a tuple, serialized whole.
serialize_dict(items) ==
    serialize(PyList([i \in DOMAIN items |-> PyTuple(items[i])]))

\* serialize
serialize(data) ==
    Tagged(data.kind,
           CASE data.kind = "int" -> serialize_int(data.v)
             [] data.kind = "str" -> serialize_string(data.v)
             [] data.kind = "bytes" -> data.v
             [] data.kind \in {"list", "tuple"} -> serialize_list(data.v)
             [] data.kind = "dict" -> serialize_dict(data.v)
             [] data.kind = "none" -> <<0>>
             [] data.kind = "bool" -> IF data.v THEN <<1>> ELSE <<0>>
             [] data.kind = "set" -> serialize_list(IterationOrder(data.v)))

\* What stands for an exception raised while deserializing.
Raised == [kind |-> "raised", v |-> 0]

\* data[first - 1 : last] of Python: the part of it that is there.
Slice(data, first, stop) ==
    SubSeq(data, first, IF stop > Len(data) THEN Len(data) ELSE stop)

RECURSIVE Hashable(_)
\* hash(value) does not raise.
Hashable(value) ==
    CASE value.kind \in {"list", "dict", "set", "raised"} -> FALSE
      [] value.kind = "tuple" -> \A i \in DOMAIN value.v : Hashable(value.v[i])
      [] OTHER -> TRUE

\* iter(value) does not raise.
Iterable(value) ==
    value.kind \in {"str", "bytes", "list", "tuple", "dict", "set"}

\* The values a for loop over the value goes through.
Iterated(value) ==
    CASE value.kind = "str" -> [i \in DOMAIN value.v |-> PyStr(<<value.v[i]>>)]
      [] value.kind = "bytes" -> [i \in DOMAIN value.v |-> PyInt(value.v[i])]
      [] value.kind = "dict" -> [i \in DOMAIN value.v |-> value.v[i][1]]
      [] value.kind = "set" -> IterationOrder(value.v)
      [] OTHER -> value.v

RECURSIVE PutItem(_, _, _)
\* deserialized_dict[key] = val
PutItem(items, key, val) ==
    IF items = <<>> THEN << <<key, val>> >>
    ELSE IF Head(items)[1] = key THEN << <<key, val>> >> \o Tail(items)
    ELSE <<Head(items)>> \o PutItem(Tail(items), key, val)

RECURSIVE DictOf(_, _)
\* The loop of deserialize_dict over the deserialized items, each of them
\* unpacked into key and val.
DictOf(items, ditems) ==
    IF ditems = <<>> THEN items
    ELSE DictOf(PutItem(items, Iterated(Head(ditems))[1],
                        Iterated(Head(ditems))[2]),
                Tail(ditems))

\* "for key, val in ditems" and "deserialized_dict[key] = val" do not raise.
Unpacks(ditems) ==
    /\ Iterable(ditems)
    /\ \A i \in DOMAIN Iterated(ditems) :
          LET item == Iterated(ditems)[i]
          IN  /\ Iterable(item)
              /\ Len(Iterated(item)) = 2
              /\ Hashable(Iterated(item)[1])

\* A deserialized item is an exception.
AnyRaised(items) == \E i \in DOMAIN items : items[i].kind = "raised"

RECURSIVE Deserialized(_, _)
RECURSIVE deserialize_list(_)
RECURSIVE deserialize(_)

\* deserialize_list: tag, length and data of one item after the other, each
\* slice as long as the data lets it be.  An item that raises ends the loop.
deserialize_list(data) ==
    IF data = <<>> THEN <<>>
    ELSE LET data_length == FromLittleEndian(Slice(data, 2, 9))
             item == Deserialized(data[1], Slice(data, 10, 9 + data_length))
         IN  IF item.kind = "raised" THEN <<item>>
             ELSE <<item>>
                     \o deserialize_list(SubSeq(data, 10 + data_length, Len(data)))

\* TAG_MAP[tag](data_bytes); an unknown tag raises KeyError.
Deserialized(tag, data_bytes) ==
    CASE tag = 0 -> PyInt(deserialize_int(data_bytes))
      [] tag = 1 ->
           IF Len(data_bytes) = 4 THEN [kind |-> "float", v |-> data_bytes]
           ELSE Raised
      [] tag = 2 ->
           IF ValidUtf8(data_bytes) THEN PyStr(deserialize_string(data_bytes))
           ELSE Raised
      [] tag = 3 -> PyBytes(data_bytes)
      [] tag \in {4, 5} ->
           LET items == deserialize_list(data_bytes)
           IN  IF AnyRaised(items) THEN Raised
               ELSE IF tag = 4 THEN PyList(items) ELSE PyTuple(items)
      [] tag = 6 ->
           LET ditems == deserialize(data_bytes)
           IN  IF ditems.kind = "raised" \/ ~Unpacks(ditems) THEN Raised
               ELSE PyDict(DictOf(<<>>, Iterated(ditems)))
      [] tag = 7 -> PyNone
      [] tag = 8 -> PyBool(data_bytes = <<1>>)
      [] tag = 9 ->
           LET items == deserialize_list(data_bytes)
           IN  IF AnyRaised(items) \/ \E i \in DOMAIN items : ~Hashable(items[i])
               THEN Raised
               ELSE PySet({items[i] : i \in DOMAIN items})
      [] OTHER -> Raised

\* deserialize: any exception is raised on as DeserializingException; data[0]
\* of no data raises IndexError.
deserialize(data) ==
    IF data = <<>> THEN Raised
    ELSE Deserialized(data[1],
                      Slice(data, 10, 9 + FromLittleEndian(Slice(data, 2, 9))))

(***************************************************************************)
(* The server after construction, and the requests clients send            *)
(***************************************************************************)

\* The settings file the runtime was made from: the settings of the server,
\* of which the server's name can be changed by a command, and no entry for
\* the ones left at their defaults.
SettingsFile ==
    [ok |-> TRUE, finished |-> FALSE,
     object |-> [server_name |-> "csh", users_file |-> "users.json",
                 port |-> 8008]]

\* getattr(self.server, setting)
Setting(setting) ==
    IF setting = "rate_limit" THEN rate_limiter.rates ELSE settings[setting]

\* json.dump does not raise at the setting's value: it is not bytes, which
\* of the values requests carry only a server name is.
Dumps(setting) == setting = "server_name" => settings.server_name # BytesR

\* ServerRuntime.finish of a runtime made from a settings file: the file is
\* loaded, every updated setting is set in it to the server's value, and
\* it is opened for writing and dumped.  json.dump raises at a value JSON
\* has no form for, which leaves the file cut short.
Finish ==
    /\ last.route = "none"
    /\ ~original_file.finished
    /\ original_file.ok
    /\ original_file' =
          IF \A setting \in updated_settings : Dumps(setting)
          THEN [ok |-> TRUE, finished |-> TRUE,
                object |-> [setting \in DOMAIN original_file.object
                                          \cup updated_settings |->
                               IF setting \in updated_settings
                               THEN Setting(setting)
                               ELSE original_file.object[setting]]]
          ELSE [ok |-> FALSE, finished |-> TRUE, object |-> <<>>]
    /\ UNCHANGED <<users, sessions, settings, updated_settings,
                   session_gen_queue, conn, last, fs, now, probe, rate_limiter,
                   users_file>>

\* CSHServer.__init__ with its default settings.
InitialSettings ==
    [server_name |-> "csh", session_limit |-> None, default_expire |-> None,
     allow_change_expire |-> TRUE]

\* The host file system at start: the server root, empty, under "/".
InitialFs == (<<"/">> :> Dir) @@ (ServerPath :> Dir)

NoProbe == [path |-> <<>>, current_directory |-> <<>>, valid |-> FALSE,
            full_path |-> <<>>]

Init ==
    /\ users = InitialUsers
    /\ sessions = <<>>
    /\ settings = InitialSettings
    /\ updated_settings = {}
    /\ session_gen_queue = <<>>
    /\ conn = [c \in Conns |-> IdleConn]
    /\ last = NoLast
    /\ fs = InitialFs
    /\ now = 0
    /\ probe = NoProbe
    /\ rate_limiter = RateLimiter(<<>>)
    /\ users_file = Written(InitialUsers)
    /\ original_file = SettingsFile

\* A request: the given entries under the given command.
Request(command, entries) == Updated([command |-> command], entries)

\* The username/password entries requests carry: both, one or none, for a
\* user of the users file or not, with the right password or not.
Credentials ==
    {<<>>, [username |-> "root"], [password |-> "pw"]}
    \cup {[username |-> u, password |-> p] :
             u \in {"root", "bob"}, p \in {"pw", "bad"}}
    \cup {[username |-> "eve", password |-> "pw"]}

\* The credentials of a user with permission a and of one with permission r.
GoodCredentials ==
    {[username |-> u, password |-> "pw"] : u \in {"root", "bob"}}

LoginRequests ==
    {Request("L", cr) : cr \in Credentials}
    \cup {Request("L", Updated(cr, [expiration_time |-> Some(1)])) :
             cr \in {[username |-> "bob", password |-> "pw"]}}

StatusRequests == {[command |-> "I"]}

ClearRequests == {Request("CS", cr) : cr \in Credentials}

\* The admin commands requests ask for, with their args.
AdminCalls ==
    {<<>>, [admin_command |-> 16], [admin_command |-> 5],
     [admin_command |-> 5, args |-> <<>>],
     [admin_command |-> 13, args |-> <<>>],
     [admin_command |-> 4, args |-> <<>>],
     [admin_command |-> 4, args |-> [username |-> "bob"]],
     [admin_command |-> 14, args |-> [session_limit |-> Some(1)]],
     [admin_command |-> 14, args |-> [session_limit |-> Some(0)]],
     [admin_command |-> 14, args |-> [session_limit |-> Some(2)]]}

\* The admin calls sent with every kind of credentials.
UserAdminCalls ==
    {[admin_command |-> 5, args |-> <<>>],
     [admin_command |-> 1,
      args |-> [username |-> "bob", password |-> "pw", permissions |-> "w"]]}

AdminRequests ==
    {Request("A", Updated(cr, call)) : cr \in Credentials, call \in UserAdminCalls}
    \cup {Request("A", Updated(cr, call)) :
              cr \in GoodCredentials, call \in AdminCalls}

\* Session commands that need no path: logout and cwd.
PlainCommandRequests ==
    {[command |-> 14]}
    \cup {[command |-> id, username |-> u, session_id |-> sid, args |-> <<>>] :
             id \in {0, 11}, u \in {"root", "bob"}, sid \in SessionIds}

NoCommandRequests == {<<>>}

\* The connection worker a new connection is handled by: the first idle one.
FreeWorker(c) ==
    /\ conn[c].pc = "idle"
    /\ \A d \in Conns : conn[d].pc = "idle" => c <= d

(***************************************************************************)
(* Spec: one connection at a time, with every shape of login, admin,       *)
(* clear-user-sessions and status request.                                 *)
(***************************************************************************)
Next ==
    \/ \E data \in LoginRequests : LogIn(1, "ip1", data)
    \/ SessionGenWorker
    \/ LogInInstall(1)
    \/ \E data \in StatusRequests : Status("ip1", data)
    \/ \E data \in AdminRequests : Admin("ip1", data)
    \/ \E data \in ClearRequests : ClearUserSessions("ip1", data)
    \/ \E data \in PlainCommandRequests : SessionCommand("ip1", data)
    \/ \E data \in NoCommandRequests : NoCommand("ip1", data)
    \/ ConnectionThreadEnds

Spec == Init /\ [][Next]_vars

(***************************************************************************)
(* SpecPath: Session.validate_path and Session.get_full_path on every path *)
(* of at most MaxPathLen characters, for a session at the root and for one *)
(* in a directory below it.                                                *)
(***************************************************************************)

\* The current directories of the sessions paths are resolved for.
ProbeDirectories == {<<".">>, <<"b">>}

\* A session validates and resolves a client path.
ValidatePath(current_directory, path) ==
    /\ probe' = [path |-> path, current_directory |-> current_directory,
                 valid |-> validate_path(current_directory, path),
                 full_path |-> get_full_path(current_directory, path)]
    /\ UNCHANGED <<users, sessions, settings, updated_settings,
                   session_gen_queue, conn, last, fs, now, rate_limiter, users_file,
                   original_file>>

\* One path is validated and resolved in each behaviour.
NextPath ==
    /\ probe = NoProbe
    /\ \E current_directory \in ProbeDirectories,
          path \in StringsUpTo(MaxPathLen) :
          ValidatePath(current_directory, path)

SpecPath == Init /\ [][NextPath]_vars

(***************************************************************************)
(* SpecCmd: the sessions of a user of each permission, and every session   *)
(* command on them.                                                        *)
(***************************************************************************)

SessionUsers == {"bob", "carol", "root"}

SessionLoginRequests ==
    {Request("L", [username |-> u, password |-> "pw"]) : u \in SessionUsers}

\* The paths session commands are sent with: a name in the current
\* directory and the same name one directory up.
PathArgs == {<<"b">>, <<".", ".", "/", "b">>}

\* The args session command id is sent with.
CommandArgs(id) ==
    CASE id \in {0, 11} -> {<<>>}
      [] id = 2  -> {[path |-> p, data |-> <<"x">>] : p \in PathArgs}
      [] id = 4  -> {[path |-> <<"b">>, new_name |-> <<"/", "b">>]}
      [] id = 8  -> {[path |-> <<"b">>, destination |-> <<"a">>]}
      [] id = 9  -> {[path |-> <<"b">>, destination |-> <<".", ".", "/", "b">>]}
      [] id = 7  -> {[path |-> <<".">>]}
      [] id = 10 -> {[path |-> p] : p \in PathArgs}
      [] OTHER   -> {[path |-> <<"b">>]}

\* Every session command for every session user and session ID, and a read
\* without args and one with args its constructor does not take.
SessionCommandRequests ==
    UNION {{[command |-> id, username |-> u, session_id |-> sid, args |-> args] :
               u \in SessionUsers, sid \in SessionIds, args \in CommandArgs(id)} :
           id \in ACCEPTABLE_COMMAND_IDS}
    \cup {[command |-> 1, username |-> "carol", session_id |-> sid] :
             sid \in SessionIds}
    \cup {[command |-> 1, username |-> "carol", session_id |-> sid,
           args |-> <<>>] : sid \in SessionIds}

NextCmd ==
    \/ \E data \in SessionLoginRequests : LogIn(1, "ip1", data)
    \/ SessionGenWorker
    \/ LogInInstall(1)
    \/ \E data \in SessionCommandRequests : SessionCommand("ip1", data)
    \/ ConnectionThreadEnds

SpecCmd == Init /\ [][NextCmd]_vars

(***************************************************************************)
(* SpecBind: sessions with and without an expiry, time passing, and the    *)
(* commands that log out, write, make and change directory, sent from the  *)
(* address that logged in and from another one, under either username.     *)
(***************************************************************************)

\* The logins of SpecBind: the session of carol expires.
BindLoginRequests ==
    {Request("L", [username |-> "bob", password |-> "pw"]),
     Request("L", [username |-> "carol", password |-> "pw",
                   expiration_time |-> Some(1)])}

\* logout, write, mkdir, chdir and cwd.
BindCommands == {0, 2, 5, 10, 11}

BindCommandRequests ==
    {[command |-> id, username |-> u, session_id |-> sid,
      args |-> CASE id \in {0, 11} -> <<>>
                 [] id = 2 -> [path |-> <<"b">>, data |-> <<"x">>]
                 [] OTHER -> [path |-> <<"b">>]] :
        id \in BindCommands, u \in {"bob", "carol"}, sid \in SessionIds}

NextBind ==
    \/ \E data \in BindLoginRequests : LogIn(1, "ip1", data)
    \/ SessionGenWorker
    \/ LogInInstall(1)
    \/ \E addr \in Addrs, data \in BindCommandRequests :
          SessionCommand(addr, data)
    \/ Tick
    \/ ConnectionThreadEnds

SpecBind == Init /\ [][NextBind]_vars

(***************************************************************************)
(* SpecConc: connection threads logging in side by side while sessions are *)
(* logged out, cleared and swept and time passes.                          *)
(***************************************************************************)

\* Logouts under the username the session may have been logged in with.
LogoutRequests ==
    {[command |-> 0, username |-> u, session_id |-> sid, args |-> <<>>] :
        u \in {"bob", "carol"}, sid \in SessionIds}

\* clear-user-sessions of bob, and the admin command that clears every
\* session.
ClearUserRequests ==
    {Request("CS", [username |-> "bob", password |-> "pw"])}

ClearAllRequests ==
    {Request("A", [username |-> "root", password |-> "pw",
                   admin_command |-> 5, args |-> <<>>])}

NextConc ==
    \/ \E c \in Conns, data \in BindLoginRequests :
          FreeWorker(c) /\ LogIn(c, "ip1", data)
    \/ SessionGenWorker
    \/ \E c \in Conns : LogInInstall(c)
    \/ \E data \in LogoutRequests : SessionCommand("ip1", data)
    \/ ReplayLogout
    \/ \E data \in ClearUserRequests : ClearUserSessions("ip1", data)
    \/ \E data \in ClearAllRequests : Admin("ip1", data)
    \/ ExpirationWorker
    \/ Tick
    \/ ConnectionThreadEnds

SpecConc == Init /\ [][NextConc]_vars

(***************************************************************************)
(* SpecLimit: a server constructed with session_limit = 1, on which        *)
(* connection threads log in side by side and sessions are logged out.     *)
(***************************************************************************)

\* The session limit the server of SpecLimit is constructed with.
ConstructedLimit == 1

\* CSHServer.__init__ with session_limit given.
InitLimited ==
    /\ users = InitialUsers
    /\ sessions = <<>>
    /\ settings = [InitialSettings EXCEPT !.session_limit = Some(ConstructedLimit)]
    /\ updated_settings = {}
    /\ session_gen_queue = <<>>
    /\ conn = [c \in Conns |-> IdleConn]
    /\ last = NoLast
    /\ fs = InitialFs
    /\ now = 0
    /\ probe = NoProbe
    /\ rate_limiter = RateLimiter(<<>>)
    /\ users_file = Written(InitialUsers)
    /\ original_file = SettingsFile

NextLimit ==
    \/ \E c \in Conns, data \in BindLoginRequests :
          FreeWorker(c) /\ LogIn(c, "ip1", data)
    \/ SessionGenWorker
    \/ \E c \in Conns : LogInInstall(c)
    \/ \E data \in LogoutRequests : SessionCommand("ip1", data)
    \/ ConnectionThreadEnds

SpecLimit == InitLimited /\ [][NextLimit]_vars

(***************************************************************************)
(* SpecTtl: sessions with an expiry while time passes, the default expiry  *)
(* is changed by an administrator, the sweeper runs, and commands arrive   *)
(* on live and on expired sessions.                                        *)
(***************************************************************************)

\* The default expiry the administrator sets.
ChangedDefault == 2

\* UpdateSessionExpirationCommand sent by root.
ExpirationRequests ==
    {Request("A", [username |-> "root", password |-> "pw", admin_command |-> 8,
                   args |-> [default_expire |-> Some(ChangedDefault),
                             allow_change_expire |-> TRUE]])}

\* logout, mkdir and cwd on the session of bob or carol.
TtlCommandRequests ==
    {[command |-> id, username |-> u, session_id |-> sid,
      args |-> IF id = 5 THEN [path |-> <<"b">>] ELSE <<>>] :
        id \in {0, 5, 11}, u \in {"bob", "carol"}, sid \in SessionIds}

NextTtl ==
    \/ \E data \in BindLoginRequests : LogIn(1, "ip1", data)
    \/ SessionGenWorker
    \/ LogInInstall(1)
    \/ \E data \in ExpirationRequests : Admin("ip1", data)
    \/ \E data \in TtlCommandRequests : SessionCommand("ip1", data)
    \/ \E c \in Conns, data \in TtlCommandRequests :
          FreeWorker(c) /\ ValidateExpired(c, "ip1", data)
    \/ \E c \in Conns : ValidateDelete(c)
    \/ ExpirationWorker
    \/ Tick
    \/ ConnectionThreadEnds

SpecTtl == Init /\ [][NextTtl]_vars

(***************************************************************************)
(* SpecRate: a server constructed with a rate limit; connections from two  *)
(* addresses go through the limiter one at a time while time passes.       *)
(***************************************************************************)

\* The rate limits the server is constructed with, as (duration, number)
\* pairs: two requests in a window of two time units; and two in a window
\* of one together with three in a window of two.
RateRules == {<< <<2, 2>> >>, << <<1, 2>>, <<2, 3>> >>}

\* CSHServer.__init__ with rate_limit given.
InitRate ==
    /\ users = InitialUsers
    /\ sessions = <<>>
    /\ settings = InitialSettings
    /\ updated_settings = {}
    /\ session_gen_queue = <<>>
    /\ conn = [c \in Conns |-> IdleConn]
    /\ last = NoLast
    /\ fs = InitialFs
    /\ now = 0
    /\ probe = NoProbe
    /\ \E rates \in RateRules : rate_limiter = RateLimiter(rates)
    /\ users_file = Written(InitialUsers)
    /\ original_file = SettingsFile

\* A login, a change of the session limit, a clear-user-sessions and a
\* mkdir.
RateLoginRequests == {Request("L", [username |-> "bob", password |-> "pw"])}

RateAdminRequests ==
    {Request("A", [username |-> "root", password |-> "pw", admin_command |-> 14,
                   args |-> [session_limit |-> Some(2)]])}

RateCommandRequests ==
    {[command |-> 5, username |-> "bob", session_id |-> sid,
      args |-> [path |-> <<"b">>]] : sid \in SessionIds}

NextRate ==
    \/ \E addr \in Addrs : TryAcquire(addr)
    \/ \E addr \in Addrs, data \in RateLoginRequests :
          Admitted(addr) /\ LogIn(1, addr, data)
    \/ SessionGenWorker
    \/ LogInInstall(1)
    \/ \E addr \in Addrs, data \in RateAdminRequests :
          Admitted(addr) /\ Admin(addr, data)
    \/ \E addr \in Addrs, data \in ClearUserRequests :
          Admitted(addr) /\ ClearUserSessions(addr, data)
    \/ \E addr \in Addrs, data \in RateCommandRequests :
          Admitted(addr) /\ SessionCommand(addr, data)
    \/ Tick
    \/ LimitedThreadEnds

SpecRate == InitRate /\ [][NextRate]_vars

(***************************************************************************)
(* SpecUsers: root creates, updates and deletes users through the admin    *)
(* commands while bob logs in with his first and with his changed          *)
(* password.                                                               *)
(***************************************************************************)

\* The password update_user is asked to give bob.
NewPassword == "new"

RootRequest(id, args) ==
    Request("A", [username |-> "root", password |-> "pw", admin_command |-> id,
                  args |-> args])

\* create_user: a well-formed user, one with permissions outside r, w, a,
\* one named by an integer and one whose permissions are bytes.
CreateRequests ==
    {RootRequest(1, [username |-> u, password |-> "pw", permissions |-> perm]) :
        <<u, perm>> \in {<<"dave", "w">>, <<"dave", "x">>, <<IntegerOne, "r">>,
                         <<"dave", BytesR>>}}

\* update_user of bob: a new password, new permissions, a new username
\* field.
UpdateRequests ==
    {RootRequest(3, [username |-> "bob", to_modify |-> m]) :
        m \in {[password |-> NewPassword], [permissions |-> "w"],
               [username |-> "eve"]}}

\* The update that changes bob's password.
PasswordUpdate ==
    RootRequest(3, [username |-> "bob", to_modify |-> [password |-> NewPassword]])

DeleteRequests ==
    {RootRequest(4, [username |-> u]) : u \in {"bob", "dave", IntegerOne}}

UsersLoginRequests ==
    {Request("L", [username |-> "bob", password |-> pw]) :
        pw \in {"pw", NewPassword}}

NextUsers ==
    \/ \E data \in CreateRequests \cup UpdateRequests \cup DeleteRequests :
          Admin("ip1", data)
    \/ \E data \in UsersLoginRequests : LogIn(1, "ip1", data)
    \/ SessionGenWorker
    \/ LogInInstall(1)
    \/ ConnectionThreadEnds

SpecUsers == Init /\ [][NextUsers]_vars

(***************************************************************************)
(* SpecCodec: a value is serialized by one side and deserialized by the    *)
(* other.                                                                  *)
(***************************************************************************)

\* Integers around the sizes of one, two and three bytes.
CodecInts ==
    {-32769, -32768, -129, -128, -1, 0, 1, 127, 128, 255, 256, 32767, 32768}

\* Longest text and bytes value, and most items of a container.
MaxItems == 2

SeqsUpTo(S, n) == UNION {[1..k -> S] : k \in 0..n}

\* The values without items.
Scalars ==
    {PyInt(n) : n \in CodecInts}
    \cup {PyStr(text) : text \in SeqsUpTo(CodecChars, MaxItems)}
    \cup {PyBytes(b) : b \in SeqsUpTo({0, 1, 255}, MaxItems)}
    \cup {PyNone, PyBool(TRUE), PyBool(FALSE)}

\* The scalars containers are filled with.
Items == {PyInt(-1), PyInt(128), PyStr(<<"eacute">>), PyBytes(<<255>>), PyNone,
          PyBool(TRUE)}

\* The items of a dict: distinct keys, in every order.
DictItems(keys, vals) ==
    {items \in SeqsUpTo(keys \X vals, MaxItems) :
        \A i, j \in DOMAIN items : i # j => items[i][1] # items[j][1]}

\* Lists, tuples, sets and dicts of scalars.
Containers ==
    {PyList(items) : items \in SeqsUpTo(Items, MaxItems)}
    \cup {PyTuple(items) : items \in SeqsUpTo(Items, MaxItems)}
    \cup {PySet(elements) :
             elements \in {e \in SUBSET Items : Cardinality(e) <= MaxItems}}
    \cup {PyDict(items) : items \in DictItems({PyInt(-1), PyStr(<<"a">>)}, Items)}

\* The values containers of containers are filled with.
NestedItems ==
    {PyInt(-129), PyList(<<PyInt(128)>>), PyTuple(<<PyStr(<<"a">>), PyNone>>),
     PySet({PyInt(-1), PyBool(TRUE)}),
     PyDict(<< <<PyStr(<<"a">>), PyBytes(<<255>>)>> >>), PyList(<<>>)}

\* Containers of containers, with tuples as keys of dicts.
Nested ==
    {PyList(items) : items \in SeqsUpTo(NestedItems, MaxItems)}
    \cup {PyTuple(items) : items \in SeqsUpTo(NestedItems, MaxItems)}
    \cup {PyDict(items) :
             items \in DictItems({PyTuple(<<PyInt(1), PyNone>>), PyBool(FALSE)},
                                 NestedItems)}
    \cup {PySet({PyTuple(<<PyInt(1)>>), PyTuple(<<PyStr(<<"a">>), PyInt(-1)>>)})}

CodecValues == Scalars \cup Containers \cup Nested

\* One side serializes the value data.
Serialize(data) ==
    /\ "binary" \notin DOMAIN probe
    /\ probe' = [value |-> data, binary |-> serialize(data), received |-> FALSE,
                 decoded |-> PyNone]
    /\ UNCHANGED <<users, sessions, settings, updated_settings,
                   session_gen_queue, conn, last, fs, now, rate_limiter,
                   users_file, original_file>>

\* The other side deserializes what it received.
Deserialize ==
    /\ "binary" \in DOMAIN probe
    /\ ~probe.received
    /\ probe' = [probe EXCEPT !.received = TRUE,
                              !.decoded = deserialize(probe.binary)]
    /\ UNCHANGED <<users, sessions, settings, updated_settings,
                   session_gen_queue, conn, last, fs, now, rate_limiter,
                   users_file, original_file>>

NextCodec ==
    \/ \E data \in CodecValues : Serialize(data)
    \/ Deserialize

SpecCodec == Init /\ [][NextCodec]_vars

\* The values whose serializations the decoder is given, whole and damaged.
DecodeValues ==
    {PyInt(1), PyInt(256), PyInt(-129), PyStr(<<"a", "b">>),
     PyStr(<<"eacute">>), PyBytes(<<0, 1>>), PyBool(TRUE), PyNone,
     PyList(<<PyInt(1), PyStr(<<"a">>)>>), PyTuple(<<PyBytes(<<255>>), PyNone>>),
     PyDict(<< <<PyStr(<<"a">>), PyInt(1)>> >>), PySet({PyInt(128)}),
     PyList(<<PyList(<<PyStr(<<"a", "b">>)>>)>>)}

\* Tags that TAG_MAP does not have.
UnknownTags == {10, 255}

\* Tag, length and data, as the serializer lays them out.
Frame(tag, data_bytes) == <<tag>> \o ToLittleEndian(Len(data_bytes), 8) \o data_bytes

\* The buffers a peer can send: a serialized value; one cut short inside its
\* data, so that the declared length exceeds what is left; one with an
\* unknown tag; and a list whose one item is cut short or has an unknown tag,
\* the list's own length being right.
Buffers ==
    LET Whole == {serialize(data) : data \in DecodeValues}
        Short == UNION {{SubSeq(b, 1, n) : n \in 9..(Len(b) - 1)} : b \in Whole}
        Retagged == {<<tag>> \o Tail(b) : b \in Whole, tag \in UnknownTags}
    IN  {[binary |-> b, damage |-> "none"] : b \in Whole}
        \cup {[binary |-> b, damage |-> "payload"] : b \in Short}
        \cup {[binary |-> b, damage |-> "tag"] : b \in Retagged}
        \cup {[binary |-> Frame(4, b), damage |-> "item payload"] : b \in Short}
        \cup {[binary |-> Frame(4, b), damage |-> "item tag"] : b \in Retagged}

\* A peer's bytes arrive.
Receive(buffer) ==
    /\ "binary" \notin DOMAIN probe
    /\ probe' = [binary |-> buffer.binary, damage |-> buffer.damage,
                 received |-> FALSE, decoded |-> PyNone]
    /\ UNCHANGED <<users, sessions, settings, updated_settings,
                   session_gen_queue, conn, last, fs, now, rate_limiter,
                   users_file, original_file>>

NextDecode ==
    \/ \E buffer \in Buffers : Receive(buffer)
    \/ Deserialize

SpecDecode == Init /\ [][NextDecode]_vars

\* The most bytes one send is given and one recv of the data asks for
\* (1048576 in the code): more than magic and length, less than a payload.
ChunkSize == 12

\* The serialized requests and responses that are framed.
FramePayloads ==
    {serialize(PyNone), serialize(PyStr(<<"a">>)), serialize(PyInt(256))}

\* b'CSH'
Magic == <<67, 83, 72>>

\* One side builds the payload of a message: the magic, the length of the
\* binary in 8 bytes, the binary.  Nothing of it is sent yet; the other side
\* is about to read the header.
FrameWrite(binary) ==
    /\ "unsent" \notin DOMAIN probe
    /\ probe' = [binary |-> binary,
                 unsent |-> Magic \o ToLittleEndian(Len(binary), 8) \o binary,
                 wire |-> <<>>, at |-> "header", length |-> 0,
                 binary_data |-> <<>>]
    /\ UNCHANGED <<users, sessions, settings, updated_settings,
                   session_gen_queue, conn, last, fs, now, rate_limiter,
                   users_file, original_file>>

\* send of the next chunk of the payload.
FrameSend ==
    /\ "unsent" \in DOMAIN probe
    /\ probe.unsent # <<>>
    /\ probe' = [probe EXCEPT
                    !.wire = @ \o Slice(probe.unsent, 1, ChunkSize),
                    !.unsent = SubSeq(@, ChunkSize + 1, Len(@))]
    /\ UNCHANGED <<users, sessions, settings, updated_settings,
                   session_gen_queue, conn, last, fs, now, rate_limiter,
                   users_file, original_file>>

\* recv(bufsize) returns what has arrived, at least one byte and at most
\* bufsize of them.
Recv(bufsize) ==
    {n \in 1..bufsize : n <= Len(probe.wire)}

\* recv(3), compared with b'CSH'; another header is refused.
RecvHeader ==
    /\ "unsent" \in DOMAIN probe
    /\ probe.at = "header"
    /\ \E n \in Recv(3) :
          probe' = [probe EXCEPT
                      !.wire = SubSeq(@, n + 1, Len(@)),
                      !.at = IF SubSeq(probe.wire, 1, n) = Magic THEN "length"
                             ELSE "refused"]
    /\ UNCHANGED <<users, sessions, settings, updated_settings,
                   session_gen_queue, conn, last, fs, now, rate_limiter,
                   users_file, original_file>>

\* int.from_bytes(recv(8)); with a length of 0 the loop is not entered.
RecvLength ==
    /\ "unsent" \in DOMAIN probe
    /\ probe.at = "length"
    /\ \E n \in Recv(8) :
          LET length == FromLittleEndian(SubSeq(probe.wire, 1, n))
          IN  probe' = [probe EXCEPT
                          !.wire = SubSeq(@, n + 1, Len(@)),
                          !.length = length,
                          !.at = IF length > 0 THEN "data" ELSE "read"]
    /\ UNCHANGED <<users, sessions, settings, updated_settings,
                   session_gen_queue, conn, last, fs, now, rate_limiter,
                   users_file, original_file>>

\* binary_data += recv(1048576), while len(binary_data) < length.
RecvData ==
    /\ "unsent" \in DOMAIN probe
    /\ probe.at = "data"
    /\ \E n \in Recv(ChunkSize) :
          LET binary_data == probe.binary_data \o SubSeq(probe.wire, 1, n)
          IN  probe' = [probe EXCEPT
                          !.wire = SubSeq(@, n + 1, Len(@)),
                          !.binary_data = binary_data,
                          !.at = IF Len(binary_data) < probe.length THEN "data"
                                 ELSE "read"]
    /\ UNCHANGED <<users, sessions, settings, updated_settings,
                   session_gen_queue, conn, last, fs, now, rate_limiter,
                   users_file, original_file>>

NextFrame ==
    \/ \E binary \in FramePayloads : FrameWrite(binary)
    \/ FrameSend
    \/ RecvHeader
    \/ RecvLength
    \/ RecvData

SpecFrame == Init /\ [][NextFrame]_vars

(***************************************************************************)
(* SpecOuter: what handle, log_in, admin, clear_user_sessions and command  *)
(* do with requests that lack a part, name no command or come from no      *)
(* user, and with well-formed ones.  The admin commands sent change no     *)
(* user.                                                                   *)
(***************************************************************************)

\* The first three bytes of connections that do not start with the magic.
OtherHeaders == {"", "C", "csh", "XSH"}

OuterAdminRequests ==
    {Request("A", Updated(cr, call)) :
        cr \in Credentials,
        call \in {<<>>, [admin_command |-> 16], [admin_command |-> 5],
                  [admin_command |-> 5, args |-> <<>>],
                  [admin_command |-> 13, args |-> <<>>], [args |-> <<>>]}}

\* Session commands with and without username, session id and args, and
\* command ids next to the acceptable ones.
OuterCommandRequests ==
    {Request(id, Updated(who, args)) :
        id \in {-1, 0, 11, 13, 14},
        who \in {<<>>, [username |-> "bob"], [session_id |-> 1]}
                 \cup {[username |-> u, session_id |-> sid] :
                          u \in {"root", "bob"}, sid \in SessionIds},
        args \in {<<>>, [args |-> <<>>]}}

NextOuter ==
    \/ \E header \in OtherHeaders : InvalidHeader("ip1", header)
    \/ \E data \in NoCommandRequests : NoCommand("ip1", data)
    \/ \E command \in OtherCommands :
          InvalidCommand("ip1", [command |-> command, username |-> "bob",
                                 password |-> "pw"])
    \/ \E data \in LoginRequests : LogIn(1, "ip1", data)
    \/ SessionGenWorker
    \/ LogInInstall(1)
    \/ \E data \in StatusRequests : Status("ip1", data)
    \/ \E data \in OuterAdminRequests : Admin("ip1", data)
    \/ \E data \in ClearRequests : ClearUserSessions("ip1", data)
    \/ \E data \in OuterCommandRequests : SessionCommand("ip1", data)
    \/ ConnectionThreadEnds

SpecOuter == Init /\ [][NextOuter]_vars

(***************************************************************************)
(* SpecLogin: logins with and without an expiration time while root sets   *)
(* the default expiration and whether clients may change it.               *)
(***************************************************************************)

\* Logins of bob: no expiration_time, None, 0 and 1.
TtlLoginRequests ==
    {Request("L", Updated([username |-> "bob", password |-> "pw"], e)) :
        e \in {<<>>, [expiration_time |-> None], [expiration_time |-> Some(0)],
               [expiration_time |-> Some(1)]}}

\* UpdateSessionExpirationCommand sent by root.
TtlSettingRequests ==
    {Request("A", [username |-> "root", password |-> "pw", admin_command |-> 8,
                   args |-> [default_expire |-> d, allow_change_expire |-> a]]) :
        d \in {None, Some(0), Some(ChangedDefault)}, a \in BOOLEAN}

NextLogin ==
    \/ \E data \in TtlLoginRequests : LogIn(1, "ip1", data)
    \/ SessionGenWorker
    \/ LogInInstall(1)
    \/ \E data \in TtlSettingRequests : Admin("ip1", data)
    \/ Tick
    \/ ConnectionThreadEnds

SpecLogin == Init /\ [][NextLogin]_vars

(***************************************************************************)
(* SpecConfig: root changes settings with admin commands 6, 7, 8 and 14    *)
(* until the runtime finishes.                                             *)
(***************************************************************************)

\* The args of the commands that change settings, and of one that does not.
SettingCalls ==
    {[admin_command |-> 6, args |-> [new_limit |-> r]] :
        r \in {<<>>, << <<2, 2>> >>}}
    \cup {[admin_command |-> 7, args |-> [name |-> n]] : n \in {"box", BytesR}}
    \cup {[admin_command |-> 8,
           args |-> [default_expire |-> d, allow_change_expire |-> a]] :
             d \in {None, Some(ChangedDefault)}, a \in BOOLEAN}
    \cup {[admin_command |-> 14, args |-> [session_limit |-> n]] :
             n \in {None, Some(1)}}
    \cup {[admin_command |-> 13, args |-> <<>>]}

SettingRequests ==
    {Request("A", Updated([username |-> "root", password |-> "pw"], call)) :
        call \in SettingCalls}

\* The server handles an admin request, not being finished.
SettingAdmin(data) == ~original_file.finished /\ Admin("ip1", data)

SettingThreadEnds == ~original_file.finished /\ ConnectionThreadEnds

NextConfig ==
    \/ \E data \in SettingRequests : SettingAdmin(data)
    \/ SettingThreadEnds
    \/ Finish

SpecConfig == Init /\ [][NextConfig]_vars

(***************************************************************************)
(* SpecBackup: root backs the file system up, into the host's root and     *)
(* into the server's path, with and without replace, as the clock goes.    *)
(***************************************************************************)

BackupRequests ==
    {Request("A", [username |-> "root", password |-> "pw", admin_command |-> 10,
                   args |-> Updated([path |-> path], replace)]) :
        path \in {<<"/">>, ServerPath},
        replace \in {<<>>, [replace |-> FALSE], [replace |-> TRUE]}}

NextBackup ==
    \/ \E data \in BackupRequests : Admin("ip1", data)
    \/ Tick
    \/ ConnectionThreadEnds

SpecBackup == Init /\ [][NextBackup]_vars

(***************************************************************************)
(* SpecWrite: carol, who may write, writes and deletes a file, with bytes  *)
(* and with a str, in every mode.                                          *)
(***************************************************************************)

\* Longest file written.
MaxWritten == 2

WriteLoginRequests == {Request("L", [username |-> "carol", password |-> "pw"])}

WriteRequests ==
    {[command |-> 2, username |-> "carol", session_id |-> sid,
      args |-> Updated([path |-> <<"b">>, data |-> data], mode)] :
        sid \in SessionIds, data \in {<<"x">>, TextData},
        mode \in {<<>>} \cup {[mode |-> m] :
                                m \in OpenModes \cup {"WB", "zz"}}}

UnlinkRequests ==
    {[command |-> 3, username |-> "carol", session_id |-> sid,
      args |-> [path |-> <<"b">>]] : sid \in SessionIds}

\* A write, while files are no longer than MaxWritten.
Write(data) ==
    /\ SessionCommand("ip1", data)
    /\ \A p \in DOMAIN fs' : Len(fs'[p].content) <= MaxWritten

NextWrite ==
    \/ \E data \in WriteLoginRequests : LogIn(1, "ip1", data)
    \/ SessionGenWorker
    \/ LogInInstall(1)
    \/ \E data \in WriteRequests : Write(data)
    \/ \E data \in UnlinkRequests : SessionCommand("ip1", data)
    \/ ConnectionThreadEnds

SpecWrite == Init /\ [][NextWrite]_vars

(***************************************************************************)
(* SpecCwd: carol makes and removes a directory and changes directory,     *)
(* with relative and absolute paths, up and down.                          *)
(***************************************************************************)

\* The paths chdir is sent with.
ChdirPaths ==
    {<<"b">>, <<".">>, <<".", ".">>, <<"/">>, <<"/", "b">>, <<"b", "/">>,
     <<".", ".", "/", "b">>, <<>>}

CwdRequests ==
    {[command |-> id, username |-> "carol", session_id |-> sid,
      args |-> [path |-> path]] :
        id \in {5, 6, 10}, sid \in SessionIds, path \in ChdirPaths}
    \cup {[command |-> 11, username |-> "carol", session_id |-> sid,
           args |-> <<>>] : sid \in SessionIds}

NextCwd ==
    \/ \E data \in WriteLoginRequests : LogIn(1, "ip1", data)
    \/ SessionGenWorker
    \/ LogInInstall(1)
    \/ \E data \in CwdRequests : SessionCommand("ip1", data)
    \/ ConnectionThreadEnds

SpecCwd == Init /\ [][NextCwd]_vars

(***************************************************************************)
(* SpecOrder: bob, who may read, and carol, who may write, log in with and *)
(* without an expiry; time passes; write, delete, mkdir and rmdir arrive   *)
(* on live and expired sessions, with paths inside and outside the root.   *)
(***************************************************************************)

OrderLoginRequests ==
    {Request("L", Updated([username |-> u, password |-> "pw"], ttl)) :
        u \in {"bob", "carol"},
        ttl \in {<<>>, [expiration_time |-> Some(1)]}}

\* write, delete, mkdir and rmdir.
OrderCommands == {2, 3, 5, 6}

OrderRequests ==
    {[command |-> id, username |-> u, session_id |-> sid,
      args |-> IF id = 2 THEN [path |-> path, data |-> <<"x">>]
               ELSE [path |-> path]] :
        id \in OrderCommands, u \in {"bob", "carol"}, sid \in SessionIds,
        path \in PathArgs}

NextOrder ==
    \/ \E data \in OrderLoginRequests : LogIn(1, "ip1", data)
    \/ SessionGenWorker
    \/ LogInInstall(1)
    \/ \E data \in OrderRequests : SessionCommand("ip1", data)
    \/ Tick
    \/ ConnectionThreadEnds

SpecOrder == Init /\ [][NextOrder]_vars

(***************************************************************************)
(* SpecSweep: run_session_expiration_worker statement by statement, next   *)
(* to logins, logouts, clears and commands whose Session.validate is taken *)
(* statement by statement as well, while time passes.  probe holds where   *)
(* the sweeper is (at), the items of its list still to visit, and the      *)
(* session a command thread found live and is about to renew.              *)
(***************************************************************************)

InitSweep ==
    /\ users = InitialUsers
    /\ sessions = <<>>
    /\ settings = InitialSettings
    /\ updated_settings = {}
    /\ session_gen_queue = <<>>
    /\ conn = [c \in Conns |-> IdleConn]
    /\ last = NoLast
    /\ fs = InitialFs
    /\ now = 0
    /\ probe = [at |-> "list", items |-> <<>>, live |-> None]
    /\ rate_limiter = RateLimiter(<<>>)
    /\ users_file = Written(InitialUsers)
    /\ original_file = SettingsFile

\* The session object s is the one the table holds under its ID.
SameObject(s, table) ==
    /\ s.session_id \in DOMAIN table
    /\ [table[s.session_id] EXCEPT !.expires = None] = [s EXCEPT !.expires = None]

\* The orders list(self.sessions.items()) can give the sessions in.
ItemLists(table) ==
    {[i \in 1..Cardinality(DOMAIN table) |-> table[order[i]]] :
        order \in {o \in [1..Cardinality(DOMAIN table) -> DOMAIN table] :
                      \A i, j \in DOMAIN o : o[i] = o[j] => i = j}}

\* for session_id, session in list(self.sessions.items()): the list is
\* made, after the sleep of the pass before.
SweepList ==
    /\ last.route = "none"
    /\ probe.at = "list"
    /\ \E items \in ItemLists(sessions) :
          probe' = [probe EXCEPT !.at = "check", !.items = items]
    /\ UNCHANGED <<users, sessions, settings, updated_settings,
                   session_gen_queue, conn, last, fs, now,
                   rate_limiter, users_file, original_file>>

\* The expires the sweeper reads from the session object of its list: that
\* of the table while the table holds the object, the one it had when the
\* list was made once it is out of the table.
ObjectExpires(s) ==
    IF SameObject(s, sessions) THEN sessions[s.session_id].expires
    ELSE s.expires

\* if session.expires: if datetime.datetime.now() > session.expires, for
\* the next item of the list; the pass ends, and sleeps, after the last.
SweepCheck ==
    /\ last.route = "none"
    /\ probe.at = "check"
    /\ IF probe.items = <<>>
       THEN probe' = [probe EXCEPT !.at = "list"]
       ELSE IF /\ ObjectExpires(Head(probe.items)) # None
               /\ now > ObjectExpires(Head(probe.items))[1]
       THEN probe' = [probe EXCEPT !.at = "del"]
       ELSE probe' = [probe EXCEPT !.items = Tail(@)]
    /\ UNCHANGED <<users, sessions, settings, updated_settings,
                   session_gen_queue, conn, last, fs, now,
                   rate_limiter, users_file, original_file>>

\* del self.sessions[session_id]: the key is removed, whichever session
\* it maps to by now; with the key gone, KeyError ends the pass and the
\* loop goes on with a new list.
SweepDelete ==
    /\ last.route = "none"
    /\ probe.at = "del"
    /\ IF Head(probe.items).session_id \in DOMAIN sessions
       THEN /\ sessions' = Restrict(sessions,
                    DOMAIN sessions \ {Head(probe.items).session_id})
            /\ probe' = [probe EXCEPT !.at = "check", !.items = Tail(@)]
       ELSE /\ sessions' = sessions
            /\ probe' = [probe EXCEPT !.at = "list", !.items = <<>>]
    /\ UNCHANGED <<users, settings, updated_settings, session_gen_queue, conn,
                   last, fs, now, rate_limiter, users_file, original_file>>

\* The current-directory command on the session of bob or carol.
SweepCommandRequests ==
    {[command |-> 11, username |-> u, session_id |-> sid, args |-> <<>>] :
        u \in {"bob", "carol"}, sid \in SessionIds}

\* Connection.handle for a command on a session with an expiry that has
\* not passed, up to the point in Session.validate where the session was
\* found live; the assignment to self.expires is still to run.
ValidateLive(addr, data) ==
    /\ last.route = "none"
    /\ probe.live = None
    /\ data.session_id \in DOMAIN sessions
    /\ ~InvalidSession(sessions[data.session_id], data.username, addr)
    /\ sessions[data.session_id].expires # None
    /\ ~Expired(sessions[data.session_id], now)
    /\ probe' = [probe EXCEPT !.live = Some(sessions[data.session_id])]
    /\ UNCHANGED <<users, sessions, settings, updated_settings,
                   session_gen_queue, conn, last, fs, now,
                   rate_limiter, users_file, original_file>>

\* self.expires = datetime.datetime.now() + timedelta(self.expire_after)
\* on that session object, in the table or not, and the rest of the
\* current-directory command, which is answered 0.
ValidateRenew(addr, data) ==
    /\ last.route = "none"
    /\ probe.live # None
    /\ data.session_id = probe.live[1].session_id
    /\ data.username = probe.live[1].username
    /\ sessions' = IF SameObject(probe.live[1], sessions)
                   THEN [sessions EXCEPT ![data.session_id].expires =
                            Some(now + probe.live[1].expire_after[1])]
                   ELSE sessions
    /\ probe' = [probe EXCEPT !.live = None]
    /\ last' = Ended("C", respond(Accepted(addr, data), 0, FALSE), <<11>>, {})
    /\ UNCHANGED <<users, settings, updated_settings, session_gen_queue, conn,
                   fs, now, rate_limiter, users_file, original_file>>

\* One statement of the sweeper.
Sweeper == SweepList \/ SweepCheck \/ SweepDelete

NextSweep ==
    \/ \E data \in BindLoginRequests : LogIn(1, "ip1", data)
    \/ SessionGenWorker
    \/ LogInInstall(1)
    \/ \E data \in LogoutRequests : SessionCommand("ip1", data)
    \/ \E data \in ClearUserRequests : ClearUserSessions("ip1", data)
    \/ \E data \in ClearAllRequests : Admin("ip1", data)
    \/ \E data \in SweepCommandRequests : ValidateLive("ip1", data)
    \/ \E data \in SweepCommandRequests : ValidateRenew("ip1", data)
    \/ SweepList
    \/ SweepCheck
    \/ SweepDelete
    \/ Tick
    \/ ConnectionThreadEnds

\* The sweeper thread loops for as long as the server runs and is scheduled
\* again and again; a connection thread that has answered ends.
SpecSweep ==
    /\ InitSweep
    /\ [][NextSweep]_vars
    /\ SF_vars(Sweeper)
    /\ WF_vars(ConnectionThreadEnds)

(***************************************************************************)
(* SpecStart: start_server starts the threads of run_server, of            *)
(* run_session_gen_worker and of run_session_expiration_worker, which are  *)
(* scheduled in any order; then logins arrive.  probe holds self.running   *)
(* and where each of the three threads is.                                 *)
(***************************************************************************)

InitStart ==
    /\ users = InitialUsers
    /\ sessions = <<>>
    /\ settings = InitialSettings
    /\ updated_settings = {}
    /\ session_gen_queue = <<>>
    /\ conn = [c \in Conns |-> IdleConn]
    /\ last = NoLast
    /\ fs = InitialFs
    /\ now = 0
    /\ probe = [running |-> FALSE, server |-> "started", gen |-> "started",
                sweeper |-> "started"]
    /\ rate_limiter = RateLimiter(<<>>)
    /\ users_file = Written(InitialUsers)
    /\ original_file = SettingsFile

\* run_server: self.running = True, listen, and the first test of the
\* accept loop.
RunServer ==
    /\ probe.server = "started"
    /\ probe' = [probe EXCEPT !.running = TRUE, !.server = "loop"]
    /\ UNCHANGED <<users, sessions, settings, updated_settings,
                   session_gen_queue, conn, last, fs, now,
                   rate_limiter, users_file, original_file>>

\* The first test of while self.running by a worker: with self.running
\* still False the loop is left, and the worker has stopped.
Entered(running) == IF running THEN "loop" ELSE "stopped"

\* run_session_gen_worker up to its loop.
RunSessionGenWorker ==
    /\ probe.gen = "started"
    /\ probe' = [probe EXCEPT !.gen = Entered(probe.running)]
    /\ UNCHANGED <<users, sessions, settings, updated_settings,
                   session_gen_queue, conn, last, fs, now,
                   rate_limiter, users_file, original_file>>

\* run_session_expiration_worker up to its loop.
RunSessionExpirationWorker ==
    /\ probe.sweeper = "started"
    /\ probe' = [probe EXCEPT !.sweeper = Entered(probe.running)]
    /\ UNCHANGED <<users, sessions, settings, updated_settings,
                   session_gen_queue, conn, last, fs, now,
                   rate_limiter, users_file, original_file>>

\* The accept loop takes a connection, whose thread handles a login.
AcceptLogIn(c, data) ==
    probe.server = "loop" /\ FreeWorker(c) /\ LogIn(c, "ip1", data)

\* The accept loop takes a connection, whose thread handles a logout.
AcceptLogout(data) == probe.server = "loop" /\ SessionCommand("ip1", data)

\* One turn of the loop of the generation worker.
GenWorkerTurn == probe.gen = "loop" /\ SessionGenWorker

\* One pass of the loop of the expiration worker.
SweeperPass == probe.sweeper = "loop" /\ ExpirationWorker

NextStart ==
    \/ RunServer
    \/ RunSessionGenWorker
    \/ RunSessionExpirationWorker
    \/ \E c \in Conns, data \in BindLoginRequests : AcceptLogIn(c, data)
    \/ \E data \in LogoutRequests : AcceptLogout(data)
    \/ GenWorkerTurn
    \/ SweeperPass
    \/ \E c \in Conns : LogInInstall(c)
    \/ Tick
    \/ ConnectionThreadEnds

\* Every thread that can run is scheduled again and again.
SpecStart ==
    /\ InitStart
    /\ [][NextStart]_vars
    /\ WF_vars(RunServer)
    /\ WF_vars(RunSessionGenWorker)
    /\ WF_vars(RunSessionExpirationWorker)
    /\ SF_vars(GenWorkerTurn)
    /\ SF_vars(SweeperPass)
    /\ \A c \in Conns : SF_vars(LogInInstall(c))
    /\ WF_vars(ConnectionThreadEnds)

(***************************************************************************)
(* SpecRevoke: carol, who may write, logs in; root deletes her or changes  *)
(* her permissions to r; every session command arrives on her sessions,    *)
(* before and after.                                                       *)
(***************************************************************************)

\* delete_user of carol, and update_user of carol to permissions r.
RevokeRequests ==
    {RootRequest(4, [username |-> "carol"]),
     RootRequest(3, [username |-> "carol",
                     to_modify |-> [permissions |-> "r"]])}

\* Every session command under the name of carol.
RevokedCommandRequests ==
    {data \in SessionCommandRequests : data.username = "carol"}

NextRevoke ==
    \/ \E data \in WriteLoginRequests : LogIn(1, "ip1", data)
    \/ SessionGenWorker
    \/ LogInInstall(1)
    \/ \E data \in RevokeRequests : Admin("ip1", data)
    \/ \E data \in RevokedCommandRequests : SessionCommand("ip1", data)
    \/ ConnectionThreadEnds

SpecRevoke == Init /\ [][NextRevoke]_vars

(***************************************************************************)
(* SpecClient: one Client object calls login, command and logout on the    *)
(* server, one call at a time, while time passes.  probe holds the fields  *)
(* of the client, the call it is in (at), the request it has sent and the  *)
(* message of the CSHClientError its last call raised.                     *)
(***************************************************************************)

\* Client.__init__
NewClient ==
    [logged_in |-> FALSE, username |-> None, session_id |-> None,
     at |-> "idle", request |-> None, raised |-> ""]

InitClient ==
    /\ users = InitialUsers
    /\ sessions = <<>>
    /\ settings = InitialSettings
    /\ updated_settings = {}
    /\ session_gen_queue = <<>>
    /\ conn = [c \in Conns |-> IdleConn]
    /\ last = NoLast
    /\ fs = InitialFs
    /\ now = 0
    /\ probe = NewClient
    /\ rate_limiter = RateLimiter(<<>>)
    /\ users_file = Written(InitialUsers)
    /\ original_file = SettingsFile

\* The client sends the request and waits for the response.
ClientRequests(at, data) ==
    [probe EXCEPT !.at = at, !.request = Some(data), !.raised = ""]

\* The call raises CSHClientError before anything is sent.
ClientRaises(message) == [probe EXCEPT !.raised = message]

\* Only the client changes in this step.
ClientOnly ==
    UNCHANGED <<users, sessions, settings, updated_settings,
                session_gen_queue, conn, last, fs, now,
                rate_limiter, users_file, original_file>>

\* Client.login up to the request.
ClientLogin(username, password, expiration_time) ==
    /\ probe.at = "idle"
    /\ probe' = IF probe.logged_in
                THEN ClientRaises("Client is already logged in.")
                ELSE ClientRequests("login",
                         Request("L", [username |-> username,
                                       password |-> password,
                                       expiration_time |-> expiration_time]))
    /\ ClientOnly

\* Client.command up to the request.  args is the empty dictionary.
ClientCommand(command_id) ==
    /\ probe.at = "idle"
    /\ probe' = IF ~probe.logged_in
                THEN ClientRaises("Not logged in.")
                ELSE ClientRequests(IF command_id = 0 THEN "logout"
                                    ELSE "command",
                         [command |-> command_id,
                          username |-> probe.username[1],
                          session_id |-> probe.session_id[1],
                          args |-> <<>>])
    /\ ClientOnly

\* The server takes the login request the client has sent.
ServerLogIn == probe.at = "login" /\ LogIn(1, "ip1", probe.request[1])

\* The server handles the session command the client has sent.
ServerCommand ==
    probe.at \in {"logout", "command"} /\ SessionCommand("ip1", probe.request[1])

\* The rest of the call once the response is read: login raises for a code
\* other than 0 and stores the username and session ID otherwise; logout
\* resets the three fields if the code is not 0; the connection is over.
ClientReceives ==
    /\ probe.at # "idle"
    /\ last.route # "none"
    /\ LET code == last.sent[1]
           done == [probe EXCEPT !.at = "idle", !.request = None]
       IN  probe' =
             CASE probe.at = "login" /\ code # 0 ->
                    [done EXCEPT !.raised = "Authentication error"]
               [] probe.at = "login" /\ code = 0 ->
                    [done EXCEPT !.logged_in = TRUE,
                                 !.username = Some(probe.request[1].username),
                                 !.session_id = last.session_id]
               [] probe.at = "logout" /\ code # 0 ->
                    [done EXCEPT !.logged_in = FALSE, !.session_id = None,
                                 !.username = None]
               [] OTHER -> done
    /\ last' = NoLast
    /\ UNCHANGED <<users, sessions, settings, updated_settings,
                   session_gen_queue, conn, fs, now,
                   rate_limiter, users_file, original_file>>

\* The logins the client is asked for: bob with his password and with a
\* wrong one, with a session that expires and with one that does not.
ClientLogins ==
    {<<"bob", password, expiration_time>> :
        password \in {"pw", "bad"}, expiration_time \in {None, Some(1)}}

NextClient ==
    \/ \E call \in ClientLogins : ClientLogin(call[1], call[2], call[3])
    \/ \E command_id \in {0, 11} : ClientCommand(command_id)
    \/ ServerLogIn
    \/ SessionGenWorker
    \/ LogInInstall(1)
    \/ ServerCommand
    \/ ClientReceives
    \/ Tick

SpecClient == InitClient /\ [][NextClient]_vars

(***************************************************************************)
(* Properties                                                              *)
(***************************************************************************)

\* The request carries a username of the users store and the password whose
\* hash is stored for it.
CredentialsValid(data, usrs) ==
    /\ {"username", "password"} \subseteq DOMAIN data
    /\ data.username \in DOMAIN usrs
    /\ usrs[data.username].password_hash = hash_password(data.password)

\* Worker c takes a login request in this step and goes on to wait for its
\* session ID.
LoginBegun(c) == conn[c].pc = "idle" /\ conn'[c].pc = "waiting"

\* Worker c installs the session of its login in this step.
LoginInstalled(c) == conn[c].pc = "waiting" /\ conn'[c].pc = "idle"

\* A login request is answered in the step that took it.
LoginRefused ==
    /\ last'.route = "L"
    /\ \A c \in Conns : ~LoginInstalled(c)

\* C1: an admin request executes its admin command only if its username is
\* in the users store and the hash of its password is the stored one; an
\* admin request with a missing credential, an unknown user or a wrong
\* password performs no admin command and leaves users, sessions and
\* settings unchanged.
C1_AdminNeedsValidCredentials ==
    [][(last'.route = "A" /\ ~CredentialsValid(last'.data, users))
          => /\ last'.performed = <<>>
             /\ UNCHANGED <<users, sessions, settings>>]_vars

\* C2: a login request with a missing username or password, an unknown
\* username or a wrong password leaves the session table as it was and
\* enqueues no session-ID generation request.
C2_LoginNeedsValidCredentials ==
    [][/\ (LoginRefused /\ ~CredentialsValid(last'.data, users))
             => UNCHANGED <<sessions, session_gen_queue>>
       /\ \A c \in Conns :
             (LoginBegun(c) /\ ~CredentialsValid(conn'[c].data, users))
                => UNCHANGED <<sessions, session_gen_queue>>]_vars

\* C3: every request gets exactly one response, after which the connection
\* is closed, and respond is not called a second time for it.
C3_OneResponsePerRequest ==
    last.route # "none"
       => /\ Len(last.sent) = 1
          /\ ~last.open
          /\ Len(last.tried) = 1

\* C7: an admin request with the correct credentials of a user whose
\* permission is r or w executes no admin command.
C7_AdminNeedsPermissionA ==
    [][(/\ last'.route = "A"
        /\ CredentialsValid(last'.data, users)
        /\ users[last'.data.username].permissions \in {"r", "w"})
          => last'.performed = <<>>]_vars

\* The user holds at least as many sessions as the session limit that is set.
LimitReached(username) ==
    /\ settings.session_limit # None
    /\ NumExistingSessions(sessions, username) >= settings.session_limit[1]

\* What a step that handles a login with valid credentials does under the
\* session limit.
SessionLimitStep ==
    /\ \A c \in Conns :
          (LoginBegun(c) /\ CredentialsValid(conn'[c].data, users))
             => ~LimitReached(conn'[c].data.username)
    /\ (LoginRefused /\ CredentialsValid(last'.data, users))
          => /\ LimitReached(last'.data.username)
             /\ last'.sent = <<24>>
             /\ UNCHANGED <<sessions, session_gen_queue>>
    /\ \A c \in Conns :
          (LoginInstalled(c) /\ conn[c].tried = <<>>)
             => /\ last'.sent = <<0>>
                /\ NumExistingSessions(sessions', conn[c].data.username)
                      = NumExistingSessions(sessions, conn[c].data.username) + 1

\* C10: with session_limit set to n, a login with valid credentials is
\* answered 24, installing and enqueueing nothing, exactly when the user
\* holds at least n sessions; otherwise it waits for its session ID, and its
\* installation answers 0 and adds one session to those the user holds, so
\* that n + 1 successive valid logins get n times 0 and then 24.
C10_SessionLimit == [][SessionLimitStep]_vars

\* The same, for every limit but 0: the one limit log_in does not enforce.
SessionLimitAboveZero ==
    [][settings.session_limit # Some(0) => SessionLimitStep]_vars

\* The user holds as many sessions as a limit above zero allows, and one more
\* login with valid credentials has been answered 24.
SessionLimitAboveZeroReached ==
    /\ Truthy(settings.session_limit)
    /\ last.route = "L"
    /\ CredentialsValid(last.data, users)
    /\ LimitReached(last.data.username)
    /\ last.sent = <<24>>

\* C4: a path that validate_path accepts resolves, by get_full_path, to the
\* root or to a descendant of it, component by component; so a path whose
\* .. components take it out of the root is refused.
C4_PathSandbox == probe.valid => InsideRoot(probe.full_path)

\* C5: every path a session command invokes a file-system primitive on,
\* source or destination, resolves inside the server root.
C5_PrimitivesInsideRoot == \A p \in last.fs_paths : InsideRoot(p)

\* The commands a user needs permission w or a for.
WriteCommands == {2, 3, 4, 5, 6, 8, 9}

\* What a step that performs a session command on a valid session does
\* about the permissions of the session's user.
PermissionStep ==
    (/\ last'.route = "C"
     /\ last'.performed # <<>>
     /\ validate(sessions, sessions[last'.data.session_id], now).ok
     /\ last'.data.username \in DOMAIN users)
       => LET permissions == users[last'.data.username].permissions
              id          == last'.data.command
          IN  /\ (permissions = "r" /\ id \in WriteCommands)
                    => last'.sent = <<19>> /\ fs' = fs
              /\ (permissions = "r" /\ id \notin WriteCommands)
                    => last'.sent # <<19>>
              /\ permissions \in {"w", "a"} => last'.sent # <<19>>

\* C6: on a valid session of a user with permission r, commands 2, 3, 4, 5,
\* 6, 8 and 9 are answered 19 and leave the file system as it was, and
\* commands 0, 1, 7, 10, 11, 12 and 13 are not answered 19; on one of a user
\* with permission w or a, no session command is answered 19.
C6_PermissionGating == [][PermissionStep]_vars

\* C6, reached: a write on a valid session of a user with permission r has
\* been answered 19.
C6_Witness ==
    /\ last.route = "C"
    /\ last.performed = <<2>>
    /\ last.data.session_id \in DOMAIN sessions
    /\ users[sessions[last.data.session_id].username].permissions = "r"
    /\ last.sent = <<19>>

\* The request answered in this step is a session command naming a session
\* of the table, sent from another address than the session's or under
\* another username.
MismatchedStep ==
    /\ last'.route = "C"
    /\ last'.data.command \in ACCEPTABLE_COMMAND_IDS
    /\ {"username", "session_id"} \subseteq DOMAIN last'.data
    /\ last'.data.session_id \in DOMAIN sessions
    /\ \/ sessions[last'.data.session_id].addr # last'.addr
       \/ sessions[last'.data.session_id].username # last'.data.username

\* C8: a session command naming a session of the table, from another address
\* than the one that logged the session in or under another username than
\* the session's, is answered 1 and performs no command: the file system and
\* the session table, with every current directory and expiry, stay as
\* they were.
C8_SessionBinding ==
    [][MismatchedStep
          => /\ last'.sent = <<1>>
             /\ last'.performed = <<>>
             /\ UNCHANGED <<sessions, fs>>]_vars

\* C8, reached: a command on a session that expires, sent after time has
\* passed from another address than the session's, has been answered 1.
C8_Witness ==
    /\ last.route = "C"
    /\ last.data.session_id \in DOMAIN sessions
    /\ sessions[last.data.session_id].addr # last.addr
    /\ sessions[last.data.session_id].username = last.data.username
    /\ sessions[last.data.session_id].expires # None
    /\ now > 0
    /\ last.sent = <<1>>

\* C9: in every reachable state, under any interleaving of logins, logouts,
\* clears and sweeps, each key of the session table is the session_id of the
\* session it maps to, and no two sessions of the table have the same
\* session_id.
C9_SessionUniqueness ==
    /\ \A sid \in DOMAIN sessions : sessions[sid].session_id = sid
    /\ \A sid1, sid2 \in DOMAIN sessions :
          sessions[sid1].session_id = sessions[sid2].session_id => sid1 = sid2

\* C9, reached: two logins that waited for their session IDs side by side
\* have both installed their sessions.
C9_Witness ==
    /\ Cardinality(DOMAIN sessions) = 2
    /\ last.route = "L"
    /\ last.sent = <<0>>
    /\ \E c \in Conns : c # 1 /\ conn[c].pc = "idle" /\ conn[1].pc = "waiting"

\* C11: under any interleaving of login workers on a server whose
\* session_limit stays set to n, no user holds more than n sessions.
C11_LimitHoldsUnderConcurrency ==
    Truthy(settings.session_limit)
       => \A u \in DOMAIN users :
             NumExistingSessions(sessions, u) <= settings.session_limit[1]

\* The step is the handling of a command whose preform ran on the session
\* sid while the session's expiry was still ahead.
RenewalStep(id) ==
    /\ last'.route = "C"
    /\ last'.performed # <<>>
    /\ last'.performed # <<0>>
    /\ UNCHANGED conn
    /\ last'.data.session_id = id
    /\ id \in DOMAIN sessions
    /\ sessions[id].expires # None
    /\ now < sessions[id].expires[1]

\* C12: a command whose preform runs on a session with expiry T at a time
\* t0 before the session's expires leaves the session in the table with
\* expires = t0 + T, T being the expire_after the session got at login and
\* keeps, whatever default_expire is by then.
C12_RenewalUsesOwnExpiry ==
    [][/\ \A sid \in SessionIds :
             RenewalStep(sid) =>
                /\ sid \in DOMAIN sessions'
                /\ sessions'[sid].expires =
                       Some(now + sessions[sid].expire_after[1])
      /\ \A sid \in DOMAIN sessions \cap DOMAIN sessions' :
             sessions[sid].username = sessions'[sid].username
                => sessions'[sid].expire_after = sessions[sid].expire_after]_vars

\* A command was answered after time passed, on a session whose own expiry
\* differs from the default expiry of the server, and the session's expires
\* is the time of the command plus its own expiry.
C12_Witness ==
    /\ last.route = "C"
    /\ last.performed = <<11>>
    /\ last.sent = <<0>>
    /\ now >= 1
    /\ last.data.session_id \in DOMAIN sessions
    /\ LET s == sessions[last.data.session_id]
       IN  /\ s.expire_after # None
           /\ settings.default_expire # None
           /\ settings.default_expire # s.expire_after
           /\ s.expires = Some(now + s.expire_after[1])

\* The step ends a command on the session sid, which validate found expired.
ExpiredStep(id) ==
    \/ /\ last'.route = "C"
       /\ last'.performed # <<>>
       /\ UNCHANGED conn
       /\ last'.data.session_id = id
       /\ id \in DOMAIN sessions
       /\ Expired(sessions[id], now)
    \/ \E c \in Conns :
          /\ conn[c].pc = "expired"
          /\ conn'[c].pc = "idle"
          /\ conn[c].data.session_id = id

\* C13: a command on a session whose expiry has passed is answered with
\* code 1 and nothing else, changes neither the file system nor any
\* session's working directory, and leaves the session out of the table,
\* whichever other thread runs in between.
C13_ExpiredSessionRefused ==
    [][\A sid \in SessionIds :
          ExpiredStep(sid) =>
             /\ last'.sent = <<1>>
             /\ fs' = fs
             /\ sessions' = Restrict(sessions, DOMAIN sessions \ {sid})]_vars

\* The step handles the replay of a logout that was answered 0.
ReplayStep ==
    /\ last.route = "C"
    /\ last.performed = <<0>>
    /\ last.sent = <<0>>
    /\ last'.route = "C"
    /\ last'.data = last.data
    /\ last'.addr = last.addr
    /\ UNCHANGED conn

\* C14: the session of a logout answered 0 is out of the table, and the
\* replay of that logout is answered with code 1 and nothing else.
C14_ReplayAfterLogout ==
    [][ReplayStep =>
          /\ last.data.session_id \notin DOMAIN sessions
          /\ last'.sent = <<1>>]_vars

\* C15: a clear-user-sessions request whose credentials are not those of a
\* user (a key missing, the user unknown, the password wrong) leaves the
\* session table as it was.
C15_ClearNeedsValidCredentials ==
    [][last'.route = "CS" /\ ~CredentialsValid(last'.data, users)
          => sessions' = sessions]_vars

\* The connection from addr passes the limiter in this step.
AdmittedStep(addr) ==
    /\ rate_limiter.admitted = None
    /\ rate_limiter'.admitted = Some(addr)

\* The connection from addr is turned away by the limiter in this step.
RefusedStep(addr) ==
    /\ last.route = "none"
    /\ last'.route = "R"
    /\ last'.addr = addr

\* A request is dispatched to its handler in this step.
DispatchStep ==
    \/ last.route = "none" /\ last'.route \notin {"none", "R"}
    \/ \E c \in Conns : LoginBegun(c)

\* C16: with a rule set configured, a connection from address p is admitted
\* only if under every (window, max) pair fewer than max connections of p
\* were admitted in the window, and is then counted for p alone; a
\* connection that is not admitted is answered 20 and nothing else, with no
\* request decoded and sessions, users, settings and files unchanged; only
\* admitted connections are dispatched; so no address ever has more than
\* max admitted connections in any window.
C16_RateLimiting ==
    [][/\ \A addr \in Addrs :
            /\ AdmittedStep(addr) =>
                  /\ \A i \in DOMAIN rate_limiter.rates :
                        InWindow(rate_limiter.buckets[addr], now,
                                 rate_limiter.rates[i][1])
                           < rate_limiter.rates[i][2]
                  /\ rate_limiter'.buckets =
                        [rate_limiter.buckets EXCEPT ![addr][now] = @ + 1]
            /\ RefusedStep(addr) =>
                  /\ \E i \in DOMAIN rate_limiter.rates :
                        InWindow(rate_limiter.buckets[addr], now,
                                 rate_limiter.rates[i][1])
                           >= rate_limiter.rates[i][2]
                  /\ last'.sent = <<20>>
                  /\ last'.data = <<>>
                  /\ UNCHANGED <<sessions, users, settings, updated_settings,
                                 fs, rate_limiter, users_file, original_file>>
       /\ DispatchStep => rate_limiter.admitted # None
       /\ \A addr \in Addrs, t \in 0..MaxTime :
            \A i \in DOMAIN rate_limiter.rates :
               InWindow(rate_limiter'.buckets[addr], t, rate_limiter.rates[i][1])
                     - ItemsFrom(rate_limiter'.buckets[addr], t + 1)
                  <= rate_limiter.rates[i][2]]_vars

\* Under the single rule (2, 2), after time passed, the third connection of
\* ip1 within the window was answered 20, while ip2 has been admitted
\* since.
C16_Witness ==
    /\ rate_limiter.rates = << <<2, 2>> >>
    /\ now >= 1
    /\ last.route = "R"
    /\ last.addr = "ip1"
    /\ last.sent = <<20>>
    /\ InWindow(rate_limiter.buckets["ip1"], now, 2) = 2
    /\ sessions # <<>>

\* The step is an admin create_user, update_user or delete_user answered 0.
UsersCommandDone ==
    /\ last.route = "none"
    /\ last'.route = "A"
    /\ last'.performed \in {<<1>>, <<3>>, <<4>>}
    /\ last'.sent = <<0>>

\* C17: when create_user, update_user or delete_user is answered 0, the
\* users file holds JSON text, and reading it gives the users the server
\* holds in memory.
C17_UsersFileDurability ==
    [][UsersCommandDone =>
          /\ users_file'.ok
          /\ users_file'.object = users']_vars

\* As long as every user is named by text, the file read back is the users
\* in memory whenever such a command is answered 0.
UsersFileDurableForTextNames ==
    [][UsersCommandDone /\ IntegerOne \notin DOMAIN users' =>
          /\ users_file'.ok
          /\ users_file'.object = users']_vars

\* C18: after update_user of a user with to_modify = {password: p} is
\* answered 0, the user's password_hash is the hash of p: the credentials
\* with p are valid and those with the password before are not.
C18_UpdateUserRehashes ==
    [][Admin("ip1", PasswordUpdate) /\ last'.sent = <<0>> =>
          /\ users'["bob"].password_hash = hash_password(NewPassword)
          /\ CredentialsValid([username |-> "bob", password |-> NewPassword],
                              users')
          /\ ~CredentialsValid([username |-> "bob", password |-> "pw"],
                               users')]_vars

\* C19: every entry of the users store carries its own name as username, a
\* password_hash, and permissions r, w or a.
C19_UsersInvariant ==
    \A name \in DOMAIN users :
       /\ {"username", "password_hash", "permissions"} \subseteq DOMAIN users[name]
       /\ users[name].username = name
       /\ users[name].permissions \in {"r", "w", "a"}

\* A value was serialized and the bytes were deserialized.
RoundTripDone == "binary" \in DOMAIN probe /\ probe.received

\* C20: deserialize(serialize(v)) is v, of the same kind, for every value v
\* made of integers, text, bytes, lists, tuples, dicts, None, booleans and
\* sets; the items of a dict come back with the same keys and values.
C20_CodecRoundTrip ==
    RoundTripDone =>
        /\ probe.decoded.kind = probe.value.kind
        /\ IF probe.value.kind = "dict"
           THEN {probe.decoded.v[i] : i \in DOMAIN probe.decoded.v}
                   = {probe.value.v[i] : i \in DOMAIN probe.value.v}
           ELSE probe.decoded = probe.value

\* A dict of two items, with a tuple as a key and containers as values, came
\* back from its bytes.
C20_Witness ==
    /\ RoundTripDone
    /\ probe.value.kind = "dict"
    /\ Len(probe.value.v) = 2
    /\ \E i \in DOMAIN probe.value.v :
          /\ probe.value.v[i][1].kind = "tuple"
          /\ probe.value.v[i][2].kind = "set"
    /\ probe.decoded = probe.value

\* The decoder has been given a buffer.
Decoded == "damage" \in DOMAIN probe /\ probe.received

\* C21: a buffer with an unknown tag, with a declared length that exceeds the
\* bytes that are left, at top level or in an item of a list, or with an item
\* that does not decode makes the decoder raise DeserializingException; it
\* returns no value for it.
C21_FramingViolationRaises ==
    Decoded /\ probe.damage # "none" => probe.decoded.kind = "raised"

\* What does hold: an unknown tag, at top level or in an item of a list,
\* raises.
UnknownTagRaises ==
    Decoded /\ probe.damage \in {"tag", "item tag"} => probe.decoded.kind = "raised"

\* The reader of a frame is through with it: it has the data, or has refused
\* the header.
FrameRead == "unsent" \in DOMAIN probe /\ probe.at \in {"read", "refused"}

\* C22: the bytes "CSH", length and payload that one side writes are read by
\* the other side as exactly the payload, with no bytes left over, however
\* the transport cuts them into chunks.
C22_FrameRoundTrip ==
    FrameRead =>
        /\ probe.at = "read"
        /\ probe.binary_data = probe.binary
        /\ probe.unsent = <<>> /\ probe.wire = <<>>

\* The code the outer layer has for a request that lacks credentials, names
\* an unknown user or carries a wrong password; 0 for none of these.
CredentialsCode(data) ==
    IF ~({"username", "password"} \subseteq DOMAIN data) THEN 12
    ELSE IF data.username \notin DOMAIN users THEN 13
    ELSE IF users[data.username].password_hash # hash_password(data.password)
    THEN 14
    ELSE 0

\* The step ends the handling of a request by the given handler.
Ends(route) == last.route = "none" /\ last'.route = route

\* The client of the request just handled received exactly this code.
Received(code) == last'.sent = <<code>>

LoginTtl ==
    IF settings.allow_change_expire /\ "expiration_time" \in DOMAIN conn[1].data
    THEN conn[1].data.expiration_time
    ELSE settings.default_expire

\* The step installs the session of a login with the given TTL and time of
\* expiry.
Installs(ttl, expires) ==
    \A id \in DOMAIN sessions' \ DOMAIN sessions :
        /\ sessions'[id].expire_after = ttl
        /\ sessions'[id].expires = expires

\* C24: the session of a login has the client's expiration time as its TTL
\* exactly when allow_change_expire is true and the request carries one, and
\* default_expire otherwise; it expires at the login time plus the TTL, and
\* never when the TTL is unset.
C24_LoginTtl ==
    [][Ends("L") /\ LogInInstall(1) =>
           Installs(LoginTtl, IF LoginTtl = None THEN None
                              ELSE Some(now + LoginTtl[1]))]_vars

\* What does hold: the TTL is chosen as the claim says, and a session with a
\* TTL above 0 expires at the login time plus the TTL.
LoginTtlAboveZero ==
    [][Ends("L") /\ LogInInstall(1) =>
           \A id \in DOMAIN sessions' \ DOMAIN sessions :
               /\ sessions'[id].expire_after = LoginTtl
               /\ LoginTtl # None /\ LoginTtl[1] > 0
                     => sessions'[id].expires = Some(now + LoginTtl[1])
               /\ LoginTtl = None => sessions'[id].expires = None]_vars

\* The settings an admin command changes.
ChangedSettings(id) ==
    CASE id = 6 -> {"rate_limit"}
      [] id = 7 -> {"server_name"}
      [] id = 8 -> {"default_expire", "allow_change_expire"}
      [] id = 14 -> {"session_limit"}
      [] OTHER -> {}

\* What does hold: an admin command answered 0 adds the names of the
\* settings it changes, and nothing else, to the updated settings.
TouchedSettings ==
    [][\A data \in SettingRequests :
          Ends("A") /\ Admin("ip1", data) /\ Received(0)
              => updated_settings' =
                     updated_settings \cup ChangedSettings(data.admin_command)]_vars

\* C25: admin commands 6, 7, 8 and 14 answered 0 add exactly the names of
\* the settings they change to the updated settings, and after finish the
\* settings file holds the server's value of every updated setting and
\* every other entry of it as it was.
C25_TouchedSettingsWrittenBack ==
    original_file.finished =>
        /\ original_file.ok
        /\ DOMAIN original_file.object
              = DOMAIN SettingsFile.object \cup updated_settings
        /\ \A setting \in DOMAIN original_file.object :
              IF setting \in updated_settings
              THEN original_file.object[setting] = Setting(setting)
              ELSE original_file.object[setting] = SettingsFile.object[setting]

\* C27: a backup asked for when an archive of the generated name exists at
\* the path is refused with code 23, the archive left as it is, if replace
\* is false, and is answered 0, the archive written again, if replace is
\* true.
C27_BackupOfExistingArchive ==
    [][\A data \in BackupRequests :
          Ends("A") /\ Admin("ip1", data)
                /\ exists(fs, BackupFile(data.args.path, now))
              => IF "replace" \in DOMAIN data.args /\ data.args.replace
                 THEN /\ Received(0)
                      /\ last'.fs_paths = {BackupFile(data.args.path, now)}
                 ELSE /\ Received(23)
                      /\ fs' = fs]_vars

\* C26: a write whose data is not bytes is answered 5 and one whose mode is
\* neither 'wb' nor 'ab' is answered 6, and neither creates, empties or
\* changes the file.  Stated for writes on the session of a user who may
\* write, to a path in the root.
C26_WriteValidation ==
    [][\A data \in WriteRequests :
          Ends("C") /\ Write(data)
                /\ data.session_id \in DOMAIN sessions
                /\ sessions[data.session_id].username = data.username
              => /\ data.args.data = TextData => Received(5) /\ fs' = fs
                 /\ data.args.data # TextData
                       /\ WriteMode(data.args) \notin {"wb", "ab"}
                    => Received(6) /\ fs' = fs]_vars

\* C28: the current directory of every session is, from login on and
\* after any session commands, a normalized relative path without a leading
\* separator, and joined to the server's path it lies inside that path.
C28_CwdInvariant ==
    \A sid \in DOMAIN sessions :
        LET current_directory == sessions[sid].current_directory
        IN  /\ current_directory = normpath(current_directory)
            /\ ~StartsWith(current_directory, <<"/">>)
            /\ InsideRoot(abspath(join(ServerPath, current_directory)))

\* The paths the client sent in the args of a request.
ClientPaths(data) ==
    {data.args[name] :
        name \in DOMAIN data.args \cap {"path", "destination", "new_name"}}

\* C29: the 'error' text of a session command answered with a code other
\* than 0 spells out no host path: at most the path the client sent.
C29_ErrorsNameNoHostPath ==
    [][\A data \in CwdRequests :
          Ends("C") /\ SessionCommand("ip1", data) /\ ~Received(0)
              => last'.error \subseteq ClientPaths(data)]_vars

\* What does hold: a primitive's FileNotFoundError, answered 3, and the
\* refusals 1, 18 and 19 spell out no host path.
MaskedErrorsNameNoHostPath ==
    last.route = "C" /\ last.sent # <<4>> => last.error = {}

\* The step handles this session command, sent from ip1.
Answers(data) ==
    /\ Ends("C")
    /\ last'.data.command = data.command
    /\ last'.data.session_id = data.session_id
    /\ last'.data.username = data.username
    /\ SessionCommand("ip1", data)

\* Whether the path is of the kind the command requires it to be already.
RequiredKind(id, f, p) ==
    CASE id \in {1, 3, 12} -> isfile(f, p)
      [] id \in {6, 7} -> isdir(f, p)
      [] id \in {4, 8, 9} -> exists(f, p)
      [] OTHER -> TRUE

\* What the step of a command on a session of the table, sent under the
\* session's username, does about the checks of preform.
ChecksInOrder(data) ==
    LET session   == sessions[data.session_id]
        valid     == validate(sessions, session, now).ok
        permitted == users[session.username].permissions
                         \in PermittedTo(data.command)
        sandboxed == validate_path(session.current_directory, data.args.path)
        kind      == RequiredKind(data.command, fs,
                         get_full_path(session.current_directory,
                                       data.args.path))
    IN  /\ ~valid => Received(1)
        /\ valid /\ ~permitted => Received(19)
        /\ valid /\ permitted /\ ~sandboxed => Received(18)
        /\ valid /\ permitted /\ sandboxed /\ ~kind => Received(18)
        /\ valid /\ permitted /\ sandboxed /\ kind
              => last'.sent \notin {<<1>>, <<19>>, <<18>>}
        /\ ~(valid /\ permitted /\ sandboxed /\ kind)
              => last'.fs_paths = {} /\ fs' = fs

\* C30: preform checks the session, then the permission, then the sandbox
\* of the path, then the kind the path must have, and then invokes the
\* file-system primitive: the code answered is that of the first check
\* that fails, 1 before 19 before 18, and the primitive is invoked, and the
\* file system changed, only when every check passed.
C30_CheckOrder ==
    [][\A data \in OrderRequests :
          Answers(data)
                /\ data.session_id \in DOMAIN sessions
                /\ sessions[data.session_id].username = data.username
              => ChecksInOrder(data)]_vars

\* A command that changes files, sent by bob, who may only read, on his
\* expired session, was answered 1 and invoked no primitive.
C30_Witness ==
    /\ last.route = "C"
    /\ last.performed \in {<<2>>, <<3>>, <<5>>, <<6>>}
    /\ last.data.username = "bob"
    /\ last.data.session_id \notin DOMAIN sessions
    /\ now = MaxTime
    /\ last.sent = <<1>>
    /\ last.fs_paths = {}

\* The current directory a chdir to path is to leave a session in, whose
\* current directory was cwd.
ChdirTarget(cwd, path) ==
    IF StartsWith(normpath(path), <<"/">>) \/ StartsWith(normpath(path), <<"\\">>)
    THEN DropFirst(normpath(path))
    ELSE normpath(join(cwd, path))

\* C31: a chdir answered 0 sets the current directory of the session to
\* the normalized argument without its leading separator when the
\* normalized argument begins with a separator, whatever the directory
\* before, and to the normalized join of the directory before and the
\* argument otherwise.
C31_ChdirResult ==
    [][\A data \in CwdRequests :
          Ends("C") /\ SessionCommand("ip1", data) /\ Received(0)
                /\ data.command = 10
              => sessions'[data.session_id].current_directory =
                     ChdirTarget(sessions[data.session_id].current_directory,
                                 data.args.path)]_vars

\* The target of a chdir to path, resolved as every other path argument is,
\* is an existing directory in the root.
ChdirTargetValid(session, path) ==
    /\ validate_path(session.current_directory, path)
    /\ isdir(fs, get_full_path(session.current_directory, path))
    /\ InsideRoot(get_full_path(session.current_directory, path))

\* C32: chdir is answered 0 only if its target, resolved against the root
\* and the current directory of the session, is an existing directory in
\* the root; otherwise it is answered 18 and the current directory stays
\* as it was.
C32_ChdirTargetCheck ==
    [][\A data \in CwdRequests :
          Ends("C") /\ SessionCommand("ip1", data) /\ data.command = 10
                /\ data.session_id \in DOMAIN sessions
              => IF ChdirTargetValid(sessions[data.session_id], data.args.path)
                 THEN TRUE
                 ELSE /\ Received(18)
                      /\ sessions' = sessions]_vars

\* What does hold: a chdir whose path validate_path refuses is answered 18
\* and leaves the current directory as it was.
ChdirOutsideRootRefused ==
    [][\A data \in CwdRequests :
          Ends("C") /\ SessionCommand("ip1", data) /\ data.command = 10
                /\ data.session_id \in DOMAIN sessions
                /\ ~validate_path(sessions[data.session_id].current_directory,
                                  data.args.path)
              => Received(18) /\ sessions' = sessions]_vars

\* The sweeper removes a session in this step.
SweepRemoves(sid) ==
    /\ probe.at = "del"
    /\ "at" \in DOMAIN probe'
    /\ probe'.at # "del"
    /\ sid \in DOMAIN sessions
    /\ sid \notin DOMAIN sessions'

\* C33: every session whose expires has passed is in the end removed from
\* the session table by the sweeper, with no request of a client, and the
\* sweeper removes no session whose expires is unset or still ahead,
\* however logins, logouts, renewals and clears interleave with it.
C33_Sweeper ==
    /\ [][\A sid \in SessionIds :
             SweepRemoves(sid) => Expired(sessions[sid], now)]_vars
    /\ \A sid \in SessionIds :
          (sid \in DOMAIN sessions /\ Expired(sessions[sid], now))
              ~> (sid \notin DOMAIN sessions)

\* The generation request of worker c is finished in this step.
Finished(c) == ~conn[c].req.finished /\ conn'[c].req.finished

\* The queue holds the unfinished requests of the waiting logins, each once.
QueueHoldsWaiting ==
    /\ \A c \in Conns :
          (conn[c].pc = "waiting" /\ ~conn[c].req.finished)
             <=> \E i \in DOMAIN session_gen_queue : session_gen_queue[i] = c
    /\ \A i, j \in DOMAIN session_gen_queue :
          session_gen_queue[i] = session_gen_queue[j] => i = j

\* C34: generation requests are served one at a time, in the order they
\* were put in the queue; each is finished once, with an ID that is no key
\* of the session table when it is generated; and a login goes on only
\* after its own request was finished, with the ID of that request.
C34_GenerationSerializer ==
    /\ []QueueHoldsWaiting
    /\ [][/\ session_gen_queue' # session_gen_queue
                => \/ /\ session_gen_queue # <<>>
                      /\ session_gen_queue' = Tail(session_gen_queue)
                      /\ Finished(Head(session_gen_queue))
                   \/ \E c \in Conns :
                         /\ session_gen_queue' = Append(session_gen_queue, c)
                         /\ LoginBegun(c)
                         /\ ~conn'[c].req.finished
          /\ \A c \in Conns :
                Finished(c)
                   => /\ session_gen_queue # <<>>
                      /\ c = Head(session_gen_queue)
                      /\ session_gen_queue' = Tail(session_gen_queue)
                      /\ conn'[c].req.session_id[1] \notin DOMAIN sessions
                      /\ \A d \in Conns \ {c} : conn'[d].req = conn[d].req
          /\ \A c \in Conns :
                conn[c].req.finished /\ conn'[c].req # conn[c].req
                   => LoginInstalled(c)
          /\ \A c \in Conns :
                LoginInstalled(c)
                   => /\ conn[c].req.finished
                      /\ conn[c].req.session_id[1] \in DOMAIN sessions'
                      /\ sessions'[conn[c].req.session_id[1]].username
                            = conn[c].data.username]_vars

\* Worker 2, whose request was put in the queue before the request worker 1
\* waits with, has its ID, while the request of worker 1 is still in the
\* queue and a session is in the table.
C34_Witness ==
    /\ conn[1].pc = "waiting" /\ ~conn[1].req.finished
    /\ conn[2].pc = "waiting" /\ conn[2].req.finished
    /\ session_gen_queue = <<1>>
    /\ sessions # <<>>

\* C35: a clear-user-sessions request answered 0 removes every session of
\* its user and leaves every session of every other user in the table as
\* it was, with its ID, current directory and expiry; the users and the
\* settings stay as they were.
C35_ClearUserFrame ==
    [][Ends("CS") /\ Received(0) =>
          /\ \A sid \in DOMAIN sessions :
                IF sessions[sid].username = last'.data.username
                THEN sid \notin DOMAIN sessions'
                ELSE sid \in DOMAIN sessions' /\ sessions'[sid] = sessions[sid]
          /\ DOMAIN sessions' \subseteq DOMAIN sessions
          /\ UNCHANGED <<users, settings, updated_settings>>]_vars

\* The sessions of bob were cleared with his credentials, answered 0, and
\* the session of carol, which expires, is the one left in the table.
C35_Witness ==
    /\ last.route = "CS"
    /\ last.data.username = "bob"
    /\ last.sent = <<0>>
    /\ Cardinality(DOMAIN sessions) = 1
    /\ \A sid \in DOMAIN sessions :
          sessions[sid].username = "carol" /\ sessions[sid].expires # None

\* C36: once started, in whatever order the three threads are scheduled
\* first, the generation worker and the sweeper are in their loops for as
\* long as the accept loop runs, and so every login that waits for its
\* session ID gets it and is answered 0 in the end.
C36_StartUpAndLoginLiveness ==
    /\ [](probe.server = "loop"
             => probe.gen # "stopped" /\ probe.sweeper # "stopped")
    /\ \A c \in Conns :
          (conn[c].pc = "waiting")
             ~> (conn[c].pc = "idle" /\ last.route = "L" /\ last.sent = <<0>>)

\* What does hold: a worker that makes its first test of self.running after
\* run_server has set it stays in its loop.
WorkersStayInLoop ==
    [][/\ probe.gen = "loop" => probe'.gen = "loop"
       /\ probe.sweeper = "loop" => probe'.sweeper = "loop"
       /\ probe.running => probe'.gen # "stopped" \/ probe.gen = "stopped"]_vars

\* C37: the generator hands no login an ID that it handed to another login
\* whose session is in the table or is still to be installed, so that the
\* installation of a session by log_in never replaces an entry of the
\* session table, however the generator and the logins interleave.
C37_NoIdIssuedTwice ==
    [][\A c \in Conns :
          /\ Finished(c) =>
                /\ conn'[c].req.session_id[1] \notin DOMAIN sessions
                /\ \A d \in Conns \ {c} :
                      conn[d].pc = "waiting" /\ conn[d].req.finished
                         => conn[d].req.session_id # conn'[c].req.session_id
          /\ LoginInstalled(c) =>
                conn[c].req.session_id[1] \notin DOMAIN sessions]_vars

\* The step handles the request as a command on a session of the table that
\* belongs to the user of the request.
OnSessionOfUser(data) ==
    /\ data.session_id \in DOMAIN sessions
    /\ sessions[data.session_id].username = data.username
    /\ Answers(data)

\* C38: once delete_user has removed a user, every session command but
\* logout on a session of that user that is still in the table is answered
\* with a code other than 0, invokes no file-system primitive and changes
\* no current directory.
C38_DeletedUserCommands ==
    [][\A data \in RevokedCommandRequests :
          OnSessionOfUser(data) /\ data.command # 0
                /\ data.username \notin DOMAIN users
              => /\ Len(last'.sent) = 1 /\ last'.sent[1] # 0
                 /\ last'.fs_paths = {}
                 /\ fs' = fs
                 /\ \A sid \in DOMAIN sessions :
                       /\ sid \in DOMAIN sessions'
                       /\ sessions'[sid].current_directory
                             = sessions[sid].current_directory]_vars

\* A write on the session of carol, which is in the table while carol is
\* no user any more, ran its preform and was answered 17.
C38_Witness ==
    /\ last.route = "C"
    /\ last.performed = <<2>>
    /\ last.data.username = "carol"
    /\ "carol" \notin DOMAIN users
    /\ last.data.session_id \in DOMAIN sessions
    /\ sessions[last.data.session_id].username = "carol"
    /\ last.sent = <<17>>

\* C39: permissions are looked up when a command runs: once update_user
\* has changed the permissions of a user from w to r, every command 2, 3, 4,
\* 5, 6, 8 or 9 on a session the user opened before the change is
\* answered 19.
C39_PermissionsAtCommandTime ==
    [][\A data \in RevokedCommandRequests :
          OnSessionOfUser(data) /\ data.command \in WriteCommands
                /\ "args" \in DOMAIN data
                /\ data.username \in DOMAIN users
                /\ users[data.username].permissions = "r"
              => /\ Received(19)
                 /\ fs' = fs]_vars

\* carol, whose permissions were changed to r after she had logged in and
\* made a directory, had a command that changes files answered 19 on that
\* session.
C39_Witness ==
    /\ last.route = "C"
    /\ last.performed \in {<<2>>, <<3>>, <<4>>, <<5>>, <<6>>, <<8>>, <<9>>}
    /\ last.data.username = "carol"
    /\ "carol" \in DOMAIN users
    /\ users["carol"].permissions = "r"
    /\ exists(fs, abspath(join(ServerPath, <<"b">>)))
    /\ last.sent = <<19>>

\* The client reads the response of its logout in this step, the server
\* having answered 0.
LogoutReturns ==
    /\ probe.at = "logout"
    /\ "at" \in DOMAIN probe'
    /\ probe'.at = "idle"
    /\ last.sent = <<0>>

\* C40: when logout returns and the server answered 0, the client is logged
\* out, with logged_in False and session_id and username None, so that
\* command raises and a new login is accepted; login while logged in and
\* command while logged out raise CSHClientError and send no request.
C40_ClientStateMachine ==
    [][/\ LogoutReturns
             => /\ ~probe'.logged_in
                /\ probe'.session_id = None
                /\ probe'.username = None
       /\ ("at" \in DOMAIN probe' /\ probe.at = "idle" /\ probe' # probe)
             => /\ probe'.at = "login" => ~probe.logged_in
                /\ probe'.at \in {"command", "logout"} => probe.logged_in
                /\ probe'.at = "idle" => probe'.raised # "" /\ ClientOnly]_vars

\* What does hold: a logout the server answers with a code other than 0
\* leaves the client logged out, and the guards of login and command raise
\* without a request.
LogoutRefusedResets ==
    [][/\ (probe.at = "logout" /\ probe'.at = "idle" /\ last.sent # <<0>>)
             => /\ ~probe'.logged_in
                /\ probe'.session_id = None
                /\ probe'.username = None
       /\ (probe.at = "idle" /\ probe' # probe)
             => /\ probe'.at = "login" => ~probe.logged_in
                /\ probe'.at \in {"command", "logout"} => probe.logged_in
                /\ probe'.at = "idle" => probe'.raised # "" /\ ClientOnly]_vars

====
